---- MODULE Spec2Model ----
(***************************************************************************)
(* A model of the retrieval-and-extraction pipeline of rag-spec-extraction *)
(* (src/src): the parser fallback chain with its OCR stage, the query      *)
(* classifier, the hybrid retriever and reranker, the JSON recovery of the *)
(* extraction engine and the QueryProcessor that composes them.            *)
(*                                                                         *)
(* Texts (queries, chunk and page contents, model answers) are TLA+        *)
(* strings; lower(), strip(), split(), the substring test (in) and the     *)
(* regular expressions of the source are computed character by character.  *)
(* A model response handed to the JSON recovery is a sequence of lexemes   *)
(* (braces, brackets, commas, whitespace, the "specs" key, the field list  *)
(* of one object, prose).  Scores are integers in fixed-point units.       *)
(*                                                                         *)
(* The module holds several specifications over the same variables: Spec   *)
(* (QueryProcessor), SpecAnswer (one answer_query on a large index),       *)
(* SpecExtract (extract_specs), SpecRerank (rerank_documents),             *)
(* SpecClassify (classify_query), SpecParse (ParseManager.load) and        *)
(* SpecOCR (ocr_pages_if_empty).                                           *)
(***************************************************************************)
EXTENDS Integers, Sequences, FiniteSets, TLC

VARIABLES
    clQuery,      \* classify_query: the query
    clAnswer,     \* classify_query: the outcome of its model call, if it made one
    clResult,     \* classify_query: the QueryType it returned
    exResponse,   \* extract_specs: the outcome of model.generate_content
    exResult,     \* extract_specs: what the call gave its caller
    rrQuery,      \* rerank_documents: the query
    rrDocs,       \* rerank_documents: the candidates, in input order
    rrOut,        \* rerank_documents: [done, docs], the list it returned
    pdf,          \* the PDF file: its pages
    llamaClient,  \* LlamaParser.client is not None
    tesseract,    \* the Tesseract binary is installed
    pmPc,         \* ParseManager.load: where it stands
    pmDocs,       \* ParseManager.load: its local docs
    pmCalls,      \* ParseManager.load: the collaborators called so far, in order
    pmLlama,      \* ParseManager.load: how self.llama.load ended
    ocrIn,        \* ocr_pages_if_empty: the documents passed to it
    ocrOut,       \* ocr_pages_if_empty: [done, docs, log], the list it returned
    vectorstore,  \* QueryProcessor.vectorstore
    last_context, \* QueryProcessor.last_context: the blocks of the context string
    indexDir,     \* the index files saved in INDEX_DIR
    ixResult,     \* how the last build_index_from_pdf or load_existing_index ended
    qpPc,         \* answer_query: where it stands
    qpQuery,      \* answer_query: the query
    qpType,       \* answer_query: query_type_str
    qpDocs,       \* answer_query: initial_docs, then final_docs
    qpSpecs,      \* answer_query: specs, as extract_specs returned them
    qpResult      \* answer_query: what the call gave its caller

exVars == <<exResponse, exResult>>
rrVars == <<rrQuery, rrDocs, rrOut>>
clVars == <<clQuery, clAnswer, clResult>>
pmVars == <<pdf, llamaClient, tesseract, pmPc, pmDocs, pmCalls, pmLlama, ocrIn, ocrOut>>
qpVars == <<vectorstore, last_context, indexDir, ixResult,
           qpPc, qpQuery, qpType, qpDocs, qpSpecs, qpResult>>
vars == <<exVars, rrVars, clVars, pmVars, qpVars>>

(***************************************************************************)
(* Bounds of the model                                                     *)
(***************************************************************************)
MaxItems == 2      \* objects in one array of a model response
MaxDocs == 2       \* candidates handed to rerank_documents
MaxPages == 3      \* pages of a PDF file
MaxOcrDocs == 2    \* documents handed to ocr_pages_if_empty on its own
IndexPages == 17   \* pages of the long manual: more chunks than top_k = 15

(***************************************************************************)
(* Strings                                                                 *)
(***************************************************************************)
UpperChars == "ABCDEFGHIJKLMNOPQRSTUVWXYZ"
LowerChars == "abcdefghijklmnopqrstuvwxyz"
DigitChars == "0123456789"

CharAt(s, i) == SubSeq(s, i, i)

CharsOf(s) == {CharAt(s, i) : i \in 1..Len(s)}

Digits == CharsOf(DigitChars)
Spaces == {" ", "\t", "\n"}
WordChars == CharsOf(UpperChars) \cup CharsOf(LowerChars) \cup Digits \cup {"_"}

\* str.lower(), one character: the lower-case letter of each upper-case one
LowerOf ==
    [c \in CharsOf(UpperChars) |->
        CharAt(LowerChars, CHOOSE i \in 1..Len(UpperChars) : CharAt(UpperChars, i) = c)]
LowerChar(c) == IF c \in DOMAIN LowerOf THEN LowerOf[c] ELSE c

RECURSIVE Lower(_)
\* str.lower()
Lower(s) ==
    IF Len(s) = 0 THEN ""
    ELSE IF Len(s) = 1 THEN LowerChar(s)
    ELSE LET half == Len(s) \div 2
         IN Lower(SubSeq(s, 1, half)) \o Lower(SubSeq(s, half + 1, Len(s)))

\* the Python test (sub in s) on strings
Contains(sub, s) ==
    \E i \in 1..(Len(s) - Len(sub) + 1) : SubSeq(s, i, i + Len(sub) - 1) = sub

\* the least position from i on whose character is in set; Len(s) + 1 if none
FirstIn(s, i, set) ==
    IF \E k \in i..Len(s) : CharAt(s, k) \in set
    THEN CHOOSE k \in i..Len(s) : CharAt(s, k) \in set /\ \A j \in i..(k - 1) : CharAt(s, j) \notin set
    ELSE Len(s) + 1

\* the least position from i on whose character is not in set; Len(s) + 1 if none
FirstNotIn(s, i, set) ==
    IF \E k \in i..Len(s) : CharAt(s, k) \notin set
    THEN CHOOSE k \in i..Len(s) : CharAt(s, k) \notin set /\ \A j \in i..(k - 1) : CharAt(s, j) \in set
    ELSE Len(s) + 1

\* the greatest position whose character is not in set; 0 if none
LastNotIn(s, set) ==
    IF \E k \in 1..Len(s) : CharAt(s, k) \notin set
    THEN CHOOSE k \in 1..Len(s) :
            CharAt(s, k) \notin set /\ \A j \in (k + 1)..Len(s) : CharAt(s, j) \in set
    ELSE 0

\* str.strip()
Strip(s) == SubSeq(s, FirstNotIn(s, 1, Spaces), LastNotIn(s, Spaces))

RECURSIVE Split(_)
\* str.split(): the maximal runs of non-whitespace
Split(s) ==
    LET a == FirstNotIn(s, 1, Spaces)
        b == FirstIn(s, a, Spaces)
    IN IF a > Len(s) THEN <<>>
       ELSE <<SubSeq(s, a, b - 1)>> \o Split(SubSeq(s, b, Len(s)))

RECURSIVE CollapseRuns(_, _, _, _)
\* re.sub of every maximal run of at least minRun characters of set by repl
CollapseRuns(s, set, minRun, repl) ==
    LET a == FirstIn(s, 1, set)
        b == FirstNotIn(s, a, set)
    IN IF a > Len(s) THEN s
       ELSE SubSeq(s, 1, a - 1)
            \o (IF b - a >= minRun THEN repl ELSE SubSeq(s, a, b - 1))
            \o CollapseRuns(SubSeq(s, b, Len(s)), set, minRun, repl)

\* the regex assertion \b between positions i-1 and i of s (1 <= i <= Len(s)+1)
WordBoundary(s, i) ==
    LET before == i > 1 /\ CharAt(s, i - 1) \in WordChars
        after == i <= Len(s) /\ CharAt(s, i) \in WordChars
    IN before # after

AllIn(s, from, to, set) == \A k \in from..to : CharAt(s, k) \in set

(***************************************************************************)
(* re.search of  \b\d+(\.\d+)\s*(u1|u2|...)\b  in s, the alternatives      *)
(* tried in the order of the sequence units.  decimal is "no" (no        *)
(* fractional part in the pattern), "yes" (\.\d+ required) or "opt"        *)
(* ((\.\d+)? optional).                                                    *)
(***************************************************************************)
NumberUnitSearch(s, units, decimal) ==
    \E i \in 1..Len(s) :
        /\ CharAt(s, i) \in Digits
        /\ WordBoundary(s, i)
        /\ \E j \in i..Len(s) :
            /\ AllIn(s, i, j, Digits)
            /\ \E f \in j..Len(s) :
                /\ \/ f = j /\ decimal \in {"no", "opt"}
                   \/ /\ decimal \in {"yes", "opt"}
                      /\ f >= j + 2
                      /\ CharAt(s, j + 1) = "."
                      /\ AllIn(s, j + 2, f, Digits)
                /\ \E k \in f..Len(s) :
                    /\ AllIn(s, f + 1, k, Spaces)
                    /\ \E n \in 1..Len(units) :
                        LET u == units[n] IN
                        /\ k + Len(u) <= Len(s)
                        /\ SubSeq(s, k + 1, k + Len(u)) = u
                        /\ WordBoundary(s, k + Len(u) + 1)

(***************************************************************************)
(* Sequences                                                               *)
(***************************************************************************)
RECURSIVE SelectNot(_, _)
\* s without its elements in drop
SelectNot(s, drop) ==
    IF s = <<>> THEN <<>>
    ELSE (IF Head(s) \in drop THEN <<>> ELSE <<Head(s)>>) \o SelectNot(Tail(s), drop)

\* the sequences over S of length at most n
SeqsUpTo(S, n) == UNION {[1..k -> S] : k \in 0..n}

(***************************************************************************)
(* Documents: page_content and a metadata dict, a function from the keys   *)
(* present to their values.                                                *)
(***************************************************************************)
Document(page_content, metadata) == [page_content |-> page_content, metadata |-> metadata]

\* dict.get(key, default)
Get(d, key, default) == IF key \in DOMAIN d THEN d[key] ELSE default

\* d[key] = value
Put(d, key, value) == [k \in DOMAIN d \cup {key} |-> IF k = key THEN value ELSE d[k]]

\* doc.metadata[key] = value
SetMeta(doc, key, value) == [doc EXCEPT !.metadata = Put(doc.metadata, key, value)]

Min(a, b) == IF a <= b THEN a ELSE b

\* the number of elements of s in set
RECURSIVE Count(_, _)
Count(s, set) ==
    IF s = <<>> THEN 0 ELSE (IF Head(s) \in set THEN 1 ELSE 0) + Count(Tail(s), set)

(***************************************************************************)
(* QueryClassifier (src/src/pipeline/query_classifier.py)                  *)
(***************************************************************************)
SPEC == "spec"
GENERAL == "general"

SPEC_KEYWORDS ==
    << "torque", "tighten", "tightening", "bolt", "nut", "screw",
       "clearance", "gap", "stroke", "play", "pressure", "psi", "bar",
       "capacity", "volume", "oil", "fuel", "coolant", "level",
       "dimension", "length", "width", "height", "thickness",
       "rpm", "speed", "voltage", "current", "amp", "amps", "watt",
       "power", "resistance", "ohm" >>

\* SPEC_PATTERN: \b\d+(\.\d+)?\s*(nm|ft|...)\b with re.IGNORECASE
SPEC_PATTERN_UNITS ==
    <<"nm", "ft", "lb", "psi", "mm", "cm", "inch", "in", "amp", "ohm", "bar", "kg">>

\* SPEC_PATTERN.search(s): case is ignored, text and pattern are compared lowered
SpecPatternSearch(s) == NumberUnitSearch(Lower(s), SPEC_PATTERN_UNITS, "opt")

\* rule 1: any(keyword in q for keyword in SPEC_KEYWORDS)
KeywordRule(query) ==
    \E n \in 1..Len(SPEC_KEYWORDS) : Contains(SPEC_KEYWORDS[n], Lower(query))

\* rule 2: SPEC_PATTERN.search(q)
PatternRule(query) == SpecPatternSearch(Lower(query))

(* classify_query_llm for a model call that ended as answer: [kind |-> "raise"]  *)
(* (generate_content raised), "none" (response.text is None, so .strip() raises  *)
(* AttributeError) or "text".                                                    *)
classify_query_llm(answer) ==
    IF answer.kind # "text" THEN GENERAL
    ELSE IF Contains("spec", Lower(Strip(answer.text))) THEN SPEC
    ELSE GENERAL

\* classify_query(query): whether its model call is made, and what it returns
NeedsModel_KeywordOnly(query) == ~KeywordRule(query)
NeedsModel(query) == ~KeywordRule(query) /\ ~PatternRule(query)
classify_query(query, answer) ==
    IF KeywordRule(query) THEN SPEC
    ELSE IF PatternRule(query) THEN SPEC
    ELSE classify_query_llm(answer)

NotCalled == [kind |-> "notcalled", text |-> ""]

ModelAnswerTexts ==
    { "spec", "general", " Spec\n", "GENERAL", "specification", "General.",
      "spec or general", "general, not spec", "Not a spec question: general",
      "unsure", "", "I cannot classify this" }

ModelAnswers ==
    {[kind |-> "raise", text |-> ""], [kind |-> "none", text |-> ""]}
    \cup {[kind |-> "text", text |-> t] : t \in ModelAnswerTexts}

ClassifierQueries ==
    { "What is the torque for the rear caliper bolt?", "How does the cooling system work?",
      "Set it to 35 Nm", "Where is the barcode label?", "", "Explain the warranty terms",
      "Who wrote this manual?", "Is 5 kg too heavy?", "Describe the display icons",
      "Describe the dashboard icons", "What tools do I need?", "   ",
      "How tight should it be?", "List the 3 steps" }

(***************************************************************************)
(* Reranker (src/src/retrieval/reranker.py)                                *)
(*                                                                         *)
(* Fixed point: a raw score (a distance) and a boost are in hundredths, a  *)
(* semantic similarity in thousandths, a hybrid score in units of 1/10000. *)
(* The raw scores of the model are those for which 1 / (1 + score) is      *)
(* exact in thousandths.                                                   *)
(***************************************************************************)
\* SPEC_NUMBER_PATTERNS, each a unit list and whether \.\d+ is part of it.  (The
\* alternative with a middle dot, N.m, is left out of the first: no text of the
\* model holds that character.)
SPEC_NUMBER_PATTERNS ==
    << [units |-> <<"Nm", "lb-ft", "ft-lb", "in-lb", "psi", "bar">>, decimal |-> "no"],
       [units |-> <<"mm", "cm", "inch", "in">>, decimal |-> "yes"],
       [units |-> <<"mm", "cm", "inch", "in">>, decimal |-> "no"] >>

\* contains_real_spec: the text is lowered, the patterns are matched as written
contains_real_spec(text) ==
    LET lowered == Lower(text) IN
    \E n \in 1..Len(SPEC_NUMBER_PATTERNS) :
        NumberUnitSearch(lowered, SPEC_NUMBER_PATTERNS[n].units,
                         SPEC_NUMBER_PATTERNS[n].decimal)

RerankKeywords == <<"torque", "bolt", "caliper", "rear", "front", "specification">>

\* doc.metadata.get("score", 1.0)
DefaultScore == 100
SpecBoost == 120
KeywordBoost == 10
TokenBoost == 15
MaxBoost == 200

\* 1 / (1 + semantic_score), in thousandths
SemanticSim(semantic_score) == (1000 * 100) \div (100 + semantic_score)

\* the boost of score_document, in hundredths
Boost(page_content, query) ==
    LET text == Lower(page_content)
        q == Lower(query)
        tokens == Split(q)
        spec == IF contains_real_spec(text) THEN SpecBoost ELSE 0
        kws == Cardinality({n \in 1..Len(RerankKeywords) : Contains(RerankKeywords[n], text)})
        hits == Cardinality({n \in 1..Len(tokens) :
                                Len(tokens[n]) > 3 /\ Contains(tokens[n], text)})
    IN Min(spec + KeywordBoost * kws + TokenBoost * hits, MaxBoost)

\* 0.7 * semantic_sim + 0.3 * boost, in units of 1/10000
Blend(semantic_score, boost) == 7 * SemanticSim(semantic_score) + 30 * boost

\* score_document(doc, query, query_type)
score_document(doc, query) ==
    Blend(Get(doc.metadata, "score", DefaultScore), Boost(doc.page_content, query))

RECURSIVE InsertByScore_BeforeEquals(_, _)
\* an unstable variant: d goes before the documents of equal hybrid_score
InsertByScore_BeforeEquals(d, sorted) ==
    IF sorted = <<>> THEN <<d>>
    ELSE IF Head(sorted).metadata["hybrid_score"] > d.metadata["hybrid_score"]
         THEN <<Head(sorted)>> \o InsertByScore_BeforeEquals(d, Tail(sorted))
         ELSE <<d>> \o sorted

RECURSIVE InsertByScore(_, _)
\* d put into a list sorted by non-increasing hybrid_score, after its equals
InsertByScore(d, sorted) ==
    IF sorted = <<>> THEN <<d>>
    ELSE IF Head(sorted).metadata["hybrid_score"] >= d.metadata["hybrid_score"]
         THEN <<Head(sorted)>> \o InsertByScore(d, Tail(sorted))
         ELSE <<d>> \o sorted

RECURSIVE SortedByScore(_)
\* sorted(docs, key=hybrid_score, reverse=True): stable, equal keys keep their order
SortedByScore(docs) ==
    IF docs = <<>> THEN <<>>
    ELSE InsertByScore(docs[Len(docs)], SortedByScore(SubSeq(docs, 1, Len(docs) - 1)))

\* rerank_documents(docs, query, query_type)
rerank_documents(docs, query) ==
    SortedByScore([i \in 1..Len(docs) |->
                      SetMeta(docs[i], "hybrid_score", score_document(docs[i], query))])

(***************************************************************************)
(* The candidates rerank_documents is run on                               *)
(***************************************************************************)
\* chunk texts without a number followed by a unit
PlainTexts == {"Tighten the rear caliper bolt", "Wheel hub assembly notes"}
NmSuffix == " to 35 Nm"
PsiSuffix == " to 32 psi"
ChunkTexts == {t \o x : t \in PlainTexts, x \in {"", NmSuffix, PsiSuffix}}

RawScores == {25, 300}
NoMeta == [k \in {} |-> 0]
RerankMetas == {NoMeta, [score |-> 25]}
RerankDocs == {Document(t, m) : t \in ChunkTexts, m \in RerankMetas}
RerankQueries == {"torque for caliper bolt", "wheel assembly", ""}

(***************************************************************************)
(* ExtractionEngine (src/src/pipeline/extraction_llm.py)                   *)
(*                                                                         *)
(* A response text is a sequence of lexemes.  LBrace, RBrace, LBracket and *)
(* RBracket are the only lexemes holding the characters { } [ ]; an object *)
(* of the array is LBrace, one field-list lexeme, RBrace.                  *)
(***************************************************************************)
LBrace == "{"
RBrace == "}"
LBracket == "["
RBracket == "]"
Comma == ","
SpecsKey == "\"specs\":"
Prose == "Here are the specifications you asked for"
\* a markdown code fence (three backquotes)
Fence == "<fence>"
WsLexemes == {" ", "\n"}

\* field lists that satisfy the SpecItem schema
BodyX == "\"component\":\"X\",\"value\":\"1\",\"unit\":\"\""
BodyBolt == "\"component\":\"Rear caliper bolt\",\"value\":\"35\",\"unit\":\"Nm\",\"page\":42"
BodyBoltLower == "\"component\":\"rear caliper bolt\",\"value\":\"35\",\"unit\":\"nm\""
\* a field list that violates it: the required field value is missing
BodyNoValue == "\"component\":\"X\",\"unit\":\"Nm\""

ValidBodies == {BodyX, BodyBolt, BodyBoltLower}
JsonBodies == ValidBodies \cup {BodyNoValue}

\* SpecItem.page = None
NoPage == 0

\* the SpecItem pydantic builds from a field list (unit defaults to "", page to None)
SpecItem(body) ==
    CASE body = BodyX -> [component |-> "X", value |-> "1", unit |-> "", page |-> NoPage]
      [] body = BodyBolt ->
            [component |-> "Rear caliper bolt", value |-> "35", unit |-> "Nm", page |-> 42]
      [] body = BodyBoltLower ->
            [component |-> "rear caliper bolt", value |-> "35", unit |-> "nm", page |-> NoPage]

\* str.strip() of a text given as lexemes
RECURSIVE StripLexemes(_)
StripLexemes(t) ==
    IF t # <<>> /\ Head(t) \in WsLexemes THEN StripLexemes(Tail(t))
    ELSE IF t # <<>> /\ t[Len(t)] \in WsLexemes THEN StripLexemes(SubSeq(t, 1, Len(t) - 1))
    ELSE t

\* JSON ignores whitespace between lexemes
Compact(t) == SelectNot(t, WsLexemes)

RECURSIVE ParseObjects(_)
(* c, whitespace-free: a comma-separated list of objects LBrace body RBrace.    *)
(* Gives the bodies, or ok = FALSE when c is no such list.                       *)
ParseObjects(c) ==
    IF Len(c) >= 3 /\ c[1] = LBrace /\ c[2] \in JsonBodies /\ c[3] = RBrace
    THEN IF Len(c) = 3 THEN [ok |-> TRUE, bodies |-> <<c[2]>>]
         ELSE IF c[4] = Comma
              THEN LET rest == ParseObjects(SubSeq(c, 5, Len(c)))
                   IN [ok |-> rest.ok,
                       bodies |-> IF rest.ok THEN <<c[2]>> \o rest.bodies ELSE <<>>]
              ELSE [ok |-> FALSE, bodies |-> <<>>]
    ELSE [ok |-> FALSE, bodies |-> <<>>]

(* json.loads of a text: the objects of a JSON array of objects; ok = FALSE is  *)
(* JSONDecodeError.  (An array holding anything but objects fails here where    *)
(* the library would load it and the schema validation after it would fail:     *)
(* both end in the same except clause.)                                         *)
JsonLoadsArray(t) ==
    LET c == Compact(t) IN
    IF Len(c) >= 2 /\ c[1] = LBracket /\ c[Len(c)] = RBracket
    THEN IF Len(c) = 2 THEN [ok |-> TRUE, bodies |-> <<>>]
         ELSE ParseObjects(SubSeq(c, 2, Len(c) - 1))
    ELSE [ok |-> FALSE, bodies |-> <<>>]

RECURSIVE JoinObjects(_)
JoinObjects(bodies) ==
    IF bodies = <<>> THEN <<>>
    ELSE <<LBrace, Head(bodies), RBrace>>
         \o (IF Len(bodies) > 1 THEN <<Comma, " ">> ELSE <<>>)
         \o JoinObjects(Tail(bodies))

\* json.dumps({"specs": array})
JsonDumpsSpecs(bodies) ==
    <<LBrace, SpecsKey, " ", LBracket>> \o JoinObjects(bodies) \o <<RBracket, RBrace>>

(* SpecList.model_validate_json: the text must be one JSON object whose "specs" *)
(* is an array of objects that each satisfy SpecItem; ok = FALSE is pydantic's   *)
(* ValidationError (malformed JSON included).                                    *)
ModelValidateJson(t) ==
    LET c == Compact(t)
        arr == IF Len(c) >= 4 THEN JsonLoadsArray(SubSeq(c, 3, Len(c) - 1))
               ELSE [ok |-> FALSE, bodies |-> <<>>]
    IN IF /\ Len(c) >= 4
          /\ c[1] = LBrace /\ c[2] = SpecsKey /\ c[Len(c)] = RBrace
          /\ arr.ok
          /\ \A i \in 1..Len(arr.bodies) : arr.bodies[i] \in ValidBodies
       THEN [ok |-> TRUE, specs |-> [i \in 1..Len(arr.bodies) |-> SpecItem(arr.bodies[i])]]
       ELSE [ok |-> FALSE, specs |-> <<>>]

FirstIndex(t, x) ==
    IF \E i \in 1..Len(t) : t[i] = x
    THEN CHOOSE i \in 1..Len(t) : t[i] = x /\ \A j \in 1..(i - 1) : t[j] # x
    ELSE 0

LastIndex(t, x) ==
    IF \E i \in 1..Len(t) : t[i] = x
    THEN CHOOSE i \in 1..Len(t) : t[i] = x /\ \A j \in (i + 1)..Len(t) : t[j] # x
    ELSE 0

\* a lazy variant: from the first open to the first close after it
GreedySearch_Lazy(raw, open, close) ==
    LET i == FirstIndex(raw, open)
        j == IF i = 0 THEN 0 ELSE i + FirstIndex(SubSeq(raw, i + 1, Len(raw)), close)
    IN IF i > 0 /\ j > i THEN [found |-> TRUE, block |-> SubSeq(raw, i, j)]
       ELSE [found |-> FALSE, block |-> <<>>]

\* re.search(open [\s\S]* close, raw): from the first open to the last close after it
GreedySearch(raw, open, close) ==
    LET i == FirstIndex(raw, open)
        j == LastIndex(raw, close)
    IN IF i > 0 /\ j > i THEN [found |-> TRUE, block |-> SubSeq(raw, i, j)]
       ELSE [found |-> FALSE, block |-> <<>>]

\* _extract_json_block: a {...} block first, a [...] block only when there is none
ExtractJsonBlock(raw) ==
    LET obj_match == GreedySearch(raw, LBrace, RBrace)
        arr_match == GreedySearch(raw, LBracket, RBracket)
    IN IF obj_match.found THEN obj_match
       ELSE IF arr_match.found THEN arr_match
       ELSE [found |-> FALSE, block |-> <<>>]

\* how a call ended: it returned a list, or it raised; Pending: it has not ended
Pending == [kind |-> "pending", specs |-> <<>>, error |-> ""]
Return(specs) == [kind |-> "return", specs |-> specs, error |-> ""]
Exception(type) == [kind |-> "exception", specs |-> <<>>, error |-> type]

(* The body of the try block of extract_specs for a model call that ended as    *)
(* response: [kind |-> "raise"] (generate_content or response.text raised),   *)
(* "none" (response.text is None) or "text" with the lexemes toks.              *)
ExtractSpecsTry(response) ==
    IF response.kind = "raise" THEN Exception("model")
    ELSE
    LET raw_text == StripLexemes(IF response.kind = "none" THEN <<>> ELSE response.toks)
        direct == ModelValidateJson(raw_text)
        found == ExtractJsonBlock(raw_text)
        stripped == StripLexemes(found.block)
        is_array == /\ stripped # <<>>
                    /\ Head(stripped) = LBracket
                    /\ stripped[Len(stripped)] = RBracket
        loaded == JsonLoadsArray(stripped)
        json_block == IF is_array THEN JsonDumpsSpecs(loaded.bodies) ELSE found.block
        data == ModelValidateJson(json_block)
    IN IF direct.ok THEN Return(direct.specs)
       ELSE IF ~found.found THEN Return(<<>>)
       ELSE IF is_array /\ ~loaded.ok THEN Exception("JSONDecodeError")
       ELSE IF ~data.ok THEN Exception("ValidationError")
       ELSE Return(data.specs)

\* extract_specs without its except clause
ExtractSpecs_NoCatch(response) == ExtractSpecsTry(response)

\* extract_specs: except Exception turns whatever the try block raised into []
ExtractSpecs(response) ==
    LET r == ExtractSpecsTry(response)
    IN IF r.kind = "exception" THEN Return(<<>>) ELSE Return(r.specs)

(***************************************************************************)
(* The model responses extract_specs is run on                            *)
(***************************************************************************)
Objects(bodies) == JoinObjects(bodies)
WrappedSpecs(bodies) == <<LBrace, SpecsKey, LBracket>> \o Objects(bodies) \o <<RBracket, RBrace>>
BareArray(bodies) == <<LBracket>> \o Objects(bodies) \o <<RBracket>>

\* narrative text that holds no brace or bracket
NarrativeFrames == {<<Prose, " ">>, <<"\n", Prose>>}
\* text around the JSON that holds no brace or bracket
PlainFrames == NarrativeFrames \cup {<<>>, <<Fence, "\n">>, <<"\n", Fence>>}
\* text around the JSON that holds some
BraceFrames ==
    { <<Prose, LBrace, Prose, RBrace, " ">>, <<" ", LBracket, Prose, RBracket>>,
      <<Prose, RBrace, " ">>, <<" ", LBrace, Prose>> }

BodyLists == SeqsUpTo(JsonBodies, MaxItems)

ResponseCores ==
    {WrappedSpecs(b) : b \in BodyLists} \cup {BareArray(b) : b \in BodyLists}
    \cup {<<>>, <<LBrace, SpecsKey, LBracket, LBrace, BodyX, RBrace>>,
          <<LBracket, BodyX, RBracket>>, <<LBrace, BodyX, RBrace>>}

ResponseTexts ==
    {pre \o core \o post : pre \in PlainFrames \cup BraceFrames, core \in ResponseCores,
                           post \in PlainFrames \cup BraceFrames}

ModelResponses ==
    {[kind |-> "raise", toks |-> <<>>], [kind |-> "none", toks |-> <<>>]}
    \cup {[kind |-> "text", toks |-> t] : t \in ResponseTexts}

(***************************************************************************)
(* The PDF file and the services around it                                 *)
(*                                                                         *)
(* A file is its pages in order; a page is what the collaborators give for *)
(* it: text, the text layer page.get_text returns; textFails, get_text     *)
(* raises on it; image, what rendering plus recognition of the page gives: *)
(* [kind |-> "text", text] or [kind |-> "raise"] (get_pixmap or            *)
(* image_to_string raises).                                                *)
(***************************************************************************)
FilePath == "data/raw/manual.pdf"

Page(text, textFails, image) == [text |-> text, textFails |-> textFails, image |-> image]
Recognized(text) == [kind |-> "text", text |-> text]
RecognitionFails == [kind |-> "raise", text |-> ""]

NormalText == "SECTION 204: Front  Suspension\n\n\nTighten the  bolt to 35 Nm"
ScannedText == "Rear caliper\t bolt torque: 35 Nm\n\n(see page 12)\n"

\* a page with a text layer
NormalPage == Page(NormalText, FALSE, Recognized(NormalText))
\* a scanned page: no text layer, recognition reads it
ScannedPage == Page("", FALSE, Recognized(ScannedText))
\* a page with a short text layer on which recognition finds next to nothing
ShortPage == Page("Page 3", FALSE, Recognized(" \n7 \n"))
\* a scanned page on which rendering or recognition fails
UnreadablePage == Page(" ", FALSE, RecognitionFails)
\* a page whose text extraction raises
BrokenPage == Page("", TRUE, Recognized(ScannedText))

PageKinds == {NormalPage, ScannedPage, ShortPage, UnreadablePage, BrokenPage}

(***************************************************************************)
(* Parsers (src/src/parsers/pymupdf_parser.py, llama_parser.py)            *)
(***************************************************************************)
\* re.sub(r"[ \t]+", " ", raw), then re.sub(r"\n{2,}", "\n", ...), then .strip()
CleanText(raw) ==
    Strip(CollapseRuns(CollapseRuns(raw, {" ", "\t"}, 1, " "), {"\n"}, 2, "\n"))

\* SECTION_REGEX, SECTION \s+ \d{3} [-\w]* [:\s] .* with re.IGNORECASE, matched at
\* position i of s: 0 if it does not match there, else the position of the last
\* character of the match (the final .* runs to the end of the line).
SectionMatchEnd(s, i) ==
    LET a == FirstNotIn(s, i + 7, Spaces)
        b == FirstNotIn(s, a + 3, WordChars \cup {"-"})
    IN IF /\ i + 6 <= Len(s)
          /\ Lower(SubSeq(s, i, i + 6)) = "section"
          /\ a > i + 7
          /\ a + 2 <= Len(s)
          /\ AllIn(s, a, a + 2, Digits)
          /\ b <= Len(s)
          /\ CharAt(s, b) \in Spaces \cup {":"}
       THEN FirstIn(s, b + 1, {"\n"}) - 1
       ELSE 0

\* SECTION_REGEX.search(text): group(1).strip() of the leftmost match, else ""
SectionOf(text) ==
    IF \E i \in 1..Len(text) : SectionMatchEnd(text, i) > 0
    THEN LET i == CHOOSE k \in 1..Len(text) :
                      /\ SectionMatchEnd(text, k) > 0
                      /\ \A j \in 1..(k - 1) : SectionMatchEnd(text, j) = 0
         IN Strip(SubSeq(text, i, SectionMatchEnd(text, i)))
    ELSE ""

\* file_path.split("/")[-1]
FileName(path) ==
    IF \E i \in 1..Len(path) : CharAt(path, i) = "/"
    THEN LET last == CHOOSE i \in 1..Len(path) :
                        /\ CharAt(path, i) = "/"
                        /\ \A j \in (i + 1)..Len(path) : CharAt(path, j) # "/"
         IN SubSeq(path, last + 1, Len(path))
    ELSE path

\* the Document both parsers build for a page
PageDocument(raw_text, page_num, parser) ==
    LET text == CleanText(raw_text) IN
    Document(text, [page |-> page_num, section |-> SectionOf(text), source |-> FilePath,
                    file_name |-> FileName(FilePath), parser |-> parser])

\* how many pages the loop of PyMuPDFParser.load reads: the try block holds the
\* whole loop, so the first get_text that raises ends it
PagesRead(file) ==
    IF \E i \in 1..Len(file) : file[i].textFails
    THEN (CHOOSE i \in 1..Len(file) :
             file[i].textFails /\ \A j \in 1..(i - 1) : ~file[j].textFails) - 1
    ELSE Len(file)

\* PyMuPDFParser.load on a file fitz.open opened: the documents it returns
PyMuPDFLoad(file) ==
    [i \in 1..PagesRead(file) |-> PageDocument(file[i].text, i, "pymupdf")]

\* one element of the list LlamaParse's load_data returns
Parsed(page_content, metadata) == [page_content |-> page_content, metadata |-> metadata]

\* LlamaParser.load on the results of load_data
LlamaLoad(results) ==
    [idx \in 1..Len(results) |->
        LET page_number == Get(results[idx].metadata, "page_number", 0)
            \* parsed.metadata.get("page_number") or idx + 1, idx counted from 0
            page_num == IF page_number # 0 THEN page_number ELSE idx
        IN PageDocument(results[idx].page_content, page_num, "llamaparse")]

RECURSIVE JoinTexts(_)
JoinTexts(file) ==
    IF file = <<>> THEN "" ELSE Head(file).text \o "\n" \o JoinTexts(Tail(file))

RECURSIVE NonBlank(_, _)
\* a parsed document, with its page number, for every page from i on that has text
NonBlank(file, i) ==
    IF i > Len(file) THEN <<>>
    ELSE (IF Strip(file[i].text) = "" THEN <<>>
          ELSE <<Parsed(file[i].text, [page_number |-> i])>>) \o NonBlank(file, i + 1)

(* What the structured-parse service may do with a file: raise, or return no    *)
(* document, one per page (numbered or not), one for the whole file, or one for *)
(* each page that has text.                                                      *)
LlamaOutcomes(file) ==
    { [kind |-> "raise", results |-> <<>>],
      [kind |-> "results", results |-> <<>>],
      [kind |-> "results",
       results |-> [i \in 1..Len(file) |-> Parsed(file[i].text, [page_number |-> i])]],
      [kind |-> "results",
       results |-> [i \in 1..Len(file) |-> Parsed(file[i].text, NoMeta)]],
      [kind |-> "results", results |-> <<Parsed(JoinTexts(file), NoMeta)>>],
      [kind |-> "results", results |-> NonBlank(file, 1)] }

(***************************************************************************)
(* OCR fallback (src/src/ocr/ocr_engine.py)                                *)
(***************************************************************************)
MIN_TEXT_CHARS == 25
\* if len(clean_text) < 5: keep the original
MinOcrChars == 5

\* the check of the loop: the page has too little real text
NeedsOcr_OffByOne(doc) == Len(Strip(doc.page_content)) <= MIN_TEXT_CHARS
NeedsOcr(doc) == Len(Strip(doc.page_content)) < MIN_TEXT_CHARS

(* Rendering and recognition for the document at list position idx (from 1):    *)
(* pdf.load_page(idx) takes the position in the list, not the page number.      *)
(* "text" with what was recognized, "notfound" (TesseractNotFoundError) or      *)
(* "raise" (no such page, get_pixmap or image_to_string raised).                *)
Recognize(file, installed, idx) ==
    IF idx > Len(file) THEN [idx |-> idx, kind |-> "raise", text |-> ""]
    ELSE IF file[idx].image.kind = "raise" THEN [idx |-> idx, kind |-> "raise", text |-> ""]
    ELSE IF ~installed THEN [idx |-> idx, kind |-> "notfound", text |-> ""]
    ELSE [idx |-> idx, kind |-> "text", text |-> file[idx].image.text]

\* the Document built from recognized text
OcrDocument_KeepsParser(doc, idx, clean_text) ==
    Document(clean_text, [page |-> Get(doc.metadata, "page", idx),
                          section |-> Get(doc.metadata, "section", ""),
                          source |-> FilePath,
                          file_name |-> FileName(FilePath),
                          parser |-> Get(doc.metadata, "parser", "ocr"),
                          ocr |-> TRUE])
OcrDocument(doc, idx, clean_text) ==
    Document(clean_text, [page |-> Get(doc.metadata, "page", idx),
                          section |-> Get(doc.metadata, "section", ""),
                          source |-> FilePath,
                          file_name |-> FileName(FilePath),
                          parser |-> "ocr",
                          ocr |-> TRUE])

\* one round of the loop: the document appended to updated_docs
OcrPage_BlanksOnError(file, installed, idx, doc) ==
    IF ~NeedsOcr(doc) THEN doc
    ELSE LET r == Recognize(file, installed, idx)
             clean_text == CleanText(r.text)
         IN IF r.kind # "text" THEN Document("", doc.metadata)
            ELSE IF Len(clean_text) < MinOcrChars THEN doc
            ELSE OcrDocument(doc, idx, clean_text)
OcrPage(file, installed, idx, doc) ==
    IF ~NeedsOcr(doc) THEN doc
    ELSE LET r == Recognize(file, installed, idx)
             clean_text == CleanText(r.text)
         IN IF r.kind # "text" THEN doc
            ELSE IF Len(clean_text) < MinOcrChars THEN doc
            ELSE OcrDocument(doc, idx, clean_text)

RECURSIVE OcrAttempts(_, _, _, _)
\* what rendering and recognition gave, for the documents from position idx on
\* that went through them
OcrAttempts(file, installed, docs, idx) ==
    IF idx > Len(docs) THEN <<>>
    ELSE (IF NeedsOcr(docs[idx]) THEN <<Recognize(file, installed, idx)>> ELSE <<>>)
         \o OcrAttempts(file, installed, docs, idx + 1)

(* ocr_pages_if_empty(file_path, docs): opened tells whether fitz.open opened    *)
(* the file.  Gives the list returned and, as log, the attempts made.            *)
ocr_pages_if_empty(file, opened, installed, docs) ==
    IF ~opened THEN [done |-> TRUE, docs |-> docs, log |-> <<>>]
    ELSE [done |-> TRUE,
          docs |-> [idx \in 1..Len(docs) |-> OcrPage(file, installed, idx, docs[idx])],
          log |-> OcrAttempts(file, installed, docs, 1)]

(***************************************************************************)
(* ParseManager (src/src/parsers/parse_manager.py)                         *)
(***************************************************************************)
\* where ParseManager.load goes after self.llama.load ended as outcome:
\* to the OCR stage with the documents, or to PyMuPDF (it raised, or gave none)
AfterLlama_NoFallbackOnEmpty(outcome) ==
    IF outcome.kind = "results" THEN "ocr" ELSE "pymupdf"
AfterLlama(outcome) ==
    IF outcome.kind = "results" /\ Len(outcome.results) > 0 THEN "ocr" ELSE "pymupdf"

\* the setdefault calls that close ParseManager.load
FixMetadata(doc, client) ==
    LET m1 == IF "page" \in DOMAIN doc.metadata THEN doc.metadata
              ELSE Put(doc.metadata, "page", -1)
        m2 == IF "section" \in DOMAIN m1 THEN m1 ELSE Put(m1, "section", "")
        m3 == IF "source" \in DOMAIN m2 THEN m2 ELSE Put(m2, "source", FilePath)
        m4 == IF "parser" \in DOMAIN m3 THEN m3
              ELSE Put(m3, "parser", IF client THEN "llama" ELSE "pymupdf")
    IN [doc EXCEPT !.metadata = m4]

(***************************************************************************)
(* Chunker (src/src/chunking/chunker.py)                                   *)
(***************************************************************************)
\* chunk_size of SpecAwareTextSplitter
ChunkSize == 600

Letters == CharsOf(UpperChars) \cup CharsOf(LowerChars)

\* SECTION_PATTERN, SECTION \s+ \d{3} (?:[-A-Z0-9]+)? (?:\s*:\s*[A-Za-z0-9 \-]+)?
\* with re.IGNORECASE, matched at position i of s: 0 if it does not match there,
\* else the position of the last character of the match.  Both groups are
\* optional and greedy; the title after the colon needs one character at least,
\* which may be a space the \s* before it gives back.
ChunkSectionMatchEnd(s, i) ==
    LET a == FirstNotIn(s, i + 7, Spaces)
        b == FirstNotIn(s, a + 3, Letters \cup Digits \cup {"-"})
        c == FirstNotIn(s, b, Spaces)
        d == FirstNotIn(s, c + 1, Spaces)
        title == Letters \cup Digits \cup {" ", "-"}
        e == FirstNotIn(s, d, title)
        spaces == {p \in (c + 1)..(d - 1) : CharAt(s, p) = " "}
    IN IF /\ i + 6 <= Len(s)
          /\ Lower(SubSeq(s, i, i + 6)) = "section"
          /\ a > i + 7
          /\ a + 2 <= Len(s)
          /\ AllIn(s, a, a + 2, Digits)
       THEN IF c <= Len(s) /\ CharAt(s, c) = ":"
            THEN IF e > d THEN e - 1
                 ELSE IF spaces # {} THEN CHOOSE p \in spaces : \A q \in spaces : q <= p
                 ELSE b - 1
            ELSE b - 1
       ELSE 0

\* SECTION_PATTERN.search(chunk): group(1).strip() of the leftmost match, "" if none
ChunkSectionOf(chunk) ==
    IF \E i \in 1..Len(chunk) : ChunkSectionMatchEnd(chunk, i) > 0
    THEN LET i == CHOOSE k \in 1..Len(chunk) :
                      /\ ChunkSectionMatchEnd(chunk, k) > 0
                      /\ \A j \in 1..(k - 1) : ChunkSectionMatchEnd(chunk, j) = 0
         IN Strip(SubSeq(chunk, i, ChunkSectionMatchEnd(chunk, i)))
    ELSE ""

(* super().split_text(page_text) of RecursiveCharacterTextSplitter for a text no *)
(* longer than chunk_size, as every page text of the model is: the splits are    *)
(* merged back into one chunk, stripped, and dropped if nothing is left.         *)
split_text(page_text) ==
    IF Strip(page_text) = "" THEN <<>> ELSE <<Strip(page_text)>>

\* a variant whose chunks start from fresh metadata and copy only page and section
ChunkDocument_FreshMetadata(doc, chunk_index, chunk) ==
    Document(Strip(chunk),
             [page |-> Get(doc.metadata, "page", "?"),
              section |-> Get(doc.metadata, "section", ""),
              chunk_index |-> chunk_index,
              parent_page |-> Get(doc.metadata, "page", "?"),
              original_section |-> Get(doc.metadata, "section", "")])

\* the Document split_documents makes of a chunk of doc
ChunkDocument(doc, chunk_index, chunk) ==
    LET original_section == Get(doc.metadata, "section", "")
        m1 == Put(doc.metadata, "chunk_index", chunk_index)
        m2 == Put(m1, "parent_page", Get(doc.metadata, "page", "?"))
        m3 == Put(m2, "original_section", original_section)
        m4 == IF original_section = "" /\ ChunkSectionOf(chunk) # ""
              THEN Put(m3, "section", ChunkSectionOf(chunk))
              ELSE m3
    IN Document(Strip(chunk), m4)

RECURSIVE split_documents(_)
\* SpecAwareTextSplitter.split_documents(docs); chunk_index counts from 0
split_documents(docs) ==
    IF docs = <<>> THEN <<>>
    ELSE LET chunks == split_text(Head(docs).page_content)
         IN [k \in 1..Len(chunks) |-> ChunkDocument(Head(docs), k - 1, chunks[k])]
            \o split_documents(Tail(docs))

(***************************************************************************)
(* Retriever (src/src/retrieval/retriever.py)                              *)
(*                                                                         *)
(* Fixed point: a distance and a keyword score are in hundredths, a        *)
(* similarity and a retrieval score in thousandths.                        *)
(***************************************************************************)
RETRIEVER_SPEC_KEYWORDS ==
    << "torque", "tighten", "nut", "bolt", "caliper", "hose",
       "psi", "capacity", "fluid", "oil", "grease",
       "disc", "pad", "brake", "shock", "damper" >>

KeywordInText == 30
KeywordInBoth == 50
TokenOverlap == 10
MaxKeywordScore == 200

\* SpecRetriever.keyword_score(text, query), in hundredths
keyword_score(text, query) ==
    LET t == Lower(text)
        q == Lower(query)
        tokens == Split(q)
        kws == RETRIEVER_SPEC_KEYWORDS
        in_t == Cardinality({n \in 1..Len(kws) : Contains(kws[n], t)})
        in_both == Cardinality({n \in 1..Len(kws) : Contains(kws[n], q) /\ Contains(kws[n], t)})
        hits == Cardinality({n \in 1..Len(tokens) : Len(tokens[n]) > 3 /\ Contains(tokens[n], t)})
    IN Min(KeywordInText * in_t + KeywordInBoth * in_both + TokenOverlap * hits, MaxKeywordScore)

\* how similarity_search_with_score ended: it raised, or gave (document, distance)
\* pairs
SearchRaised == [kind |-> "raise", results |-> <<>>]
SearchResults(results) == [kind |-> "results", results |-> results]
Hit(doc, distance) == [doc |-> doc, distance |-> distance]

\* max(all_scores) if all_scores else 1, and min(all_scores) if all_scores else 0
MaxDistance(results) ==
    IF results = <<>> THEN 100
    ELSE CHOOSE m \in {results[i].distance : i \in 1..Len(results)} :
            \A i \in 1..Len(results) : results[i].distance <= m
MinDistance(results) ==
    IF results = <<>> THEN 0
    ELSE CHOOSE m \in {results[i].distance : i \in 1..Len(results)} :
            \A i \in 1..Len(results) : results[i].distance >= m

\* range_s = (max_s - min_s) or 1
RangeOf(results) ==
    IF MaxDistance(results) - MinDistance(results) = 0 THEN 100
    ELSE MaxDistance(results) - MinDistance(results)

\* faiss_sim = 1 - ((distance - min_s) / range_s), in thousandths
FaissSim(results, distance) ==
    1000 - (1000 * (distance - MinDistance(results))) \div RangeOf(results)

\* the document retrieve returns for one pair: the document, five keys written
Retrieved(results, hit, query) ==
    LET kw == keyword_score(hit.doc.page_content, query)
        faiss_sim == FaissSim(results, hit.distance)
        m1 == Put(hit.doc.metadata, "faiss_distance", hit.distance)
        m2 == Put(m1, "faiss_similarity", faiss_sim)
        m3 == Put(m2, "keyword_score", kw)
        m4 == Put(m3, "retrieval_score", faiss_sim + 10 * kw)
        m5 == Put(m4, "retrieval_type", "hybrid")
    IN [hit.doc EXCEPT !.metadata = m5]

\* SpecRetriever.retrieve(query, query_type, top_k) for a search that ended as
\* search: a search that raises gives []
retrieve(search, query) ==
    IF search.kind = "raise" THEN <<>>
    ELSE [i \in 1..Len(search.results) |-> Retrieved(search.results, search.results[i], query)]

(***************************************************************************)
(* QueryProcessor (src/src/pipeline/query_processor.py) and the index      *)
(* (src/src/embeddings/embed_index.py)                                     *)
(***************************************************************************)
\* self.vectorstore = None; also: no index files in INDEX_DIR
NoIndex == [kind |-> "none", chunks |-> <<>>]
\* a FAISS index over these chunks
Index(chunks) == [kind |-> "index", chunks |-> chunks]

\* retriever.retrieve(..., top_k=15) and ranked_docs[:6]
TopK == 15
FinalK == 6

(* ParseManager.load(file_path) as one call.  outcome: how self.llama.load       *)
(* ended; opened: fitz.open opens the file.                                      *)
ParseManagerLoad(file, client, outcome, opened, installed) ==
    LET next == IF client THEN AfterLlama(outcome) ELSE "pymupdf"
        parsed == IF next = "ocr" THEN LlamaLoad(outcome.results) ELSE PyMuPDFLoad(file)
        docs == ocr_pages_if_empty(file, opened, installed, parsed).docs
    IN IF next = "pymupdf" /\ ~opened THEN [kind |-> "raise", docs |-> <<>>]
       ELSE [kind |-> "return",
             docs |-> [i \in 1..Len(docs) |-> FixMetadata(docs[i], client)]]

\* one block of the context string: the values its f-string holds
ContextBlock(idx, d) ==
    [chunk |-> idx,
     page |-> Get(d.metadata, "page", "?"),
     section |-> Get(d.metadata, "section", ""),
     score |-> Get(d.metadata, "hybrid_score", 0),
     text |-> Strip(d.page_content)]

\* a variant that numbers the blocks from 0: enumerate without start=1
BuildContext_NumbersFromZero(final_docs) ==
    [idx \in 1..Len(final_docs) |-> ContextBlock(idx - 1, final_docs[idx])]

\* the blocks of context, in the order "\n".join puts them; no block: ""
BuildContext(final_docs) == [idx \in 1..Len(final_docs) |-> ContextBlock(idx, final_docs[idx])]

\* key = (s.component.lower(), s.value.lower(), s.unit.lower())
DedupKey(s) == <<Lower(s.component), Lower(s.value), Lower(s.unit)>>

RECURSIVE Dedup_KeepsFirst(_)
\* a variant that keeps the first item of a key
Dedup_KeepsFirst(specs) ==
    IF specs = <<>> THEN <<>>
    ELSE LET last == specs[Len(specs)]
             rest == Dedup_KeepsFirst(SubSeq(specs, 1, Len(specs) - 1))
         IN IF \E i \in 1..Len(rest) : DedupKey(rest[i]) = DedupKey(last)
            THEN rest
            ELSE Append(rest, last)

RECURSIVE Dedup(_)
\* unique[key] = s for s in specs, then list(unique.values()): a key stands where
\* its first item stood and holds its last item
Dedup(specs) ==
    IF specs = <<>> THEN <<>>
    ELSE LET last == specs[Len(specs)]
             rest == Dedup(SubSeq(specs, 1, Len(specs) - 1))
         IN IF \E i \in 1..Len(rest) : DedupKey(rest[i]) = DedupKey(last)
            THEN [i \in 1..Len(rest) |->
                    IF DedupKey(rest[i]) = DedupKey(last) THEN last ELSE rest[i]]
            ELSE Append(rest, last)

(***************************************************************************)
(* What answer_query and the index operations are run on                   *)
(***************************************************************************)
ManualFile == <<NormalPage, ScannedPage>>
TwinFile == <<NormalPage, NormalPage>>
IndexFiles == {ManualFile, TwinFile}

(* The body of build_index_from_pdf: the index it assigns to self.vectorstore,  *)
(* or that it raised.  built: build_faiss_index returned.                        *)
build_index_from_pdf(file, client, outcome, opened, installed, built) ==
    LET loaded == ParseManagerLoad(file, client, outcome, opened, installed)
        chunks == split_documents(loaded.docs)
    IN IF loaded.kind = "raise" \/ ~built THEN [kind |-> "raise", chunks |-> <<>>]
       ELSE Index(chunks)

\* every way build_index_from_pdf may end on the files of IndexFiles
BuildResults ==
    UNION { { build_index_from_pdf(file, client, outcome, opened, installed, built) :
                outcome \in (IF client THEN LlamaOutcomes(file)
                             ELSE {[kind |-> "raise", results |-> <<>>]}),
                opened \in BOOLEAN, installed \in BOOLEAN, built \in BOOLEAN } :
            file \in IndexFiles, client \in BOOLEAN }

\* index files an earlier run left in INDEX_DIR
PersistedIndex ==
    Index(split_documents(
        ParseManagerLoad(TwinFile, FALSE, [kind |-> "raise", results |-> <<>>], TRUE, TRUE).docs))

\* a manual of IndexPages pages, text pages and scanned pages in turn, and the
\* index files a build from it left in INDEX_DIR
LongFile == [i \in 1..IndexPages |-> IF i % 2 = 1 THEN NormalPage ELSE ScannedPage]
LargeIndex ==
    Index(split_documents(
        ParseManagerLoad(LongFile, FALSE, [kind |-> "raise", results |-> <<>>], TRUE, TRUE).docs))

Queries == {"", "rear caliper bolt torque", "what is this manual about"}

\* distances the index reports (hundredths)
Distances == RawScores

Orders(n) == {f \in [1..n -> 1..n] : \A i, j \in 1..n : i # j => f[i] # f[j]}

\* the orders of nearness the search may report for n chunks: every order of a
\* small index, the stored order and its reverse of a larger one
SearchOrders(n) ==
    IF n <= MaxDocs THEN Orders(n)
    ELSE {[i \in 1..n |-> i], [i \in 1..n |-> n + 1 - i]}

\* the distances of n results, nearest first: non-decreasing, each in Distances
DistanceRuns(n) ==
    LET near == CHOOSE d \in Distances : \A e \in Distances : d <= e
        far == CHOOSE d \in Distances : \A e \in Distances : d >= e
    IN {[i \in 1..n |-> IF i <= c THEN near ELSE far] : c \in 0..n}

\* how similarity_search_with_score(query, k) may end on an index over chunks:
\* it raises, or gives the k nearest chunks, nearest first
Searches(chunks, k) ==
    LET n == Min(k, Len(chunks)) IN
    {SearchRaised} \cup
    { SearchResults([i \in 1..n |-> Hit(chunks[f[i]], d[i])]) :
        f \in SearchOrders(Len(chunks)), d \in DistanceRuns(n) }

\* how the model call of extract_specs may end inside answer_query
PipelineResponses ==
    { [kind |-> "raise", toks |-> <<>>],
      [kind |-> "text", toks |-> WrappedSpecs(<<BodyBolt, BodyBoltLower>>)],
      [kind |-> "text", toks |-> <<Fence, "\n">> \o WrappedSpecs(<<BodyX, BodyBolt>>) \o <<"\n", Fence>>],
      [kind |-> "text", toks |-> <<Prose, " ">> \o BareArray(<<BodyX>>)] }

(***************************************************************************)
(* Specifications.  Each runs one component on the inputs its Init draws   *)
(* and leaves the variables of the others at rest.                         *)
(***************************************************************************)
NotRun == [done |-> FALSE, docs |-> <<>>]

ExtractIdle ==
    /\ exResponse = [kind |-> "none", toks |-> <<>>]
    /\ exResult = Pending

RerankIdle ==
    /\ rrQuery = ""
    /\ rrDocs = <<>>
    /\ rrOut = NotRun

ClassifyIdle ==
    /\ clQuery = ""
    /\ clAnswer = NotCalled
    /\ clResult = "pending"

OcrNotRun == [done |-> FALSE, docs |-> <<>>, log |-> <<>>]

ParseIdle ==
    /\ pdf = <<>>
    /\ llamaClient = FALSE
    /\ tesseract = TRUE
    /\ pmPc = "idle"
    /\ pmDocs = <<>>
    /\ pmCalls = <<>>
    /\ pmLlama = "notcalled"
    /\ ocrIn = <<>>
    /\ ocrOut = OcrNotRun

QueryIdle ==
    /\ vectorstore = NoIndex
    /\ last_context = <<>>
    /\ indexDir = NoIndex
    /\ ixResult = "none"
    /\ qpPc = "idle"
    /\ qpQuery = ""
    /\ qpType = "none"
    /\ qpDocs = <<>>
    /\ qpSpecs = <<>>
    /\ qpResult = Pending

(***************************************************************************)
(* SpecExtract: extract_specs on every model response of ModelResponses    *)
(***************************************************************************)
InitExtract ==
    /\ exResponse \in ModelResponses
    /\ exResult = Pending
    /\ RerankIdle
    /\ ClassifyIdle
    /\ ParseIdle
    /\ QueryIdle

\* extract_specs(query, context, query_type), the model call ending as exResponse
ExtractSpecsCall ==
    /\ exResult = Pending
    /\ exResult' = ExtractSpecs(exResponse)
    /\ UNCHANGED <<exResponse, rrVars, clVars, pmVars, qpVars>>

NextExtract == ExtractSpecsCall

SpecExtract == InitExtract /\ [][NextExtract]_vars

(***************************************************************************)
(* SpecRerank: rerank_documents on up to MaxDocs candidates                *)
(***************************************************************************)
InitRerank ==
    /\ rrQuery \in RerankQueries
    /\ rrDocs \in SeqsUpTo(RerankDocs, MaxDocs)
    /\ rrOut = NotRun
    /\ ExtractIdle
    /\ ClassifyIdle
    /\ ParseIdle
    /\ QueryIdle

\* rerank_documents(rrDocs, rrQuery, query_type)
RerankCall ==
    /\ ~rrOut.done
    /\ rrOut' = [done |-> TRUE, docs |-> rerank_documents(rrDocs, rrQuery)]
    /\ UNCHANGED <<rrQuery, rrDocs, exVars, clVars, pmVars, qpVars>>

NextRerank == RerankCall

SpecRerank == InitRerank /\ [][NextRerank]_vars

(***************************************************************************)
(* SpecClassify: classify_query on the queries of ClassifierQueries        *)
(***************************************************************************)
InitClassify ==
    /\ clQuery \in ClassifierQueries
    /\ clAnswer = NotCalled
    /\ clResult = "pending"
    /\ ExtractIdle
    /\ RerankIdle
    /\ ParseIdle
    /\ QueryIdle

\* classify_query(clQuery) when a rule decides: no model call
ClassifyByRule ==
    /\ clResult = "pending"
    /\ ~NeedsModel(clQuery)
    /\ clResult' = classify_query(clQuery, NotCalled)
    /\ UNCHANGED <<clQuery, clAnswer, exVars, rrVars, pmVars, qpVars>>

\* classify_query(clQuery) when no rule decides: one model call, ending as answer
ClassifyByModel ==
    /\ clResult = "pending"
    /\ NeedsModel(clQuery)
    /\ \E answer \in ModelAnswers :
        /\ clAnswer' = answer
        /\ clResult' = classify_query(clQuery, answer)
    /\ UNCHANGED <<clQuery, exVars, rrVars, pmVars, qpVars>>

NextClassify == ClassifyByRule \/ ClassifyByModel

SpecClassify == InitClassify /\ [][NextClassify]_vars

(***************************************************************************)
(* SpecParse: ParseManager.load on a file of up to MaxPages pages          *)
(***************************************************************************)
InitParse ==
    /\ pdf \in SeqsUpTo(PageKinds, MaxPages) \ {<<>>}
    /\ llamaClient \in BOOLEAN
    /\ tesseract \in BOOLEAN
    /\ pmPc = "start"
    /\ pmDocs = <<>>
    /\ pmCalls = <<>>
    /\ pmLlama = "notcalled"
    /\ ocrIn = <<>>
    /\ ocrOut = OcrNotRun
    /\ ExtractIdle
    /\ RerankIdle
    /\ ClassifyIdle
    /\ QueryIdle

\* load(file_path): if self.llama.client is not None ... else ...
PM_Begin ==
    /\ pmPc = "start"
    /\ pmPc' = IF llamaClient THEN "llama" ELSE "pymupdf"
    /\ UNCHANGED <<pdf, llamaClient, tesseract, pmDocs, pmCalls, pmLlama, ocrIn, ocrOut>>
    /\ UNCHANGED <<exVars, rrVars, clVars, qpVars>>

\* docs = self.llama.load(file_path), inside the try block
PM_Llama ==
    /\ pmPc = "llama"
    /\ \E outcome \in LlamaOutcomes(pdf) :
        /\ pmLlama' = IF outcome.kind = "raise" THEN "raise"
                      ELSE IF outcome.results = <<>> THEN "empty" ELSE "pages"
        /\ pmDocs' = LlamaLoad(outcome.results)
        /\ pmPc' = AfterLlama(outcome)
    /\ pmCalls' = Append(pmCalls, "llama")
    /\ UNCHANGED <<pdf, llamaClient, tesseract, ocrIn, ocrOut>>
    /\ UNCHANGED <<exVars, rrVars, clVars, qpVars>>

\* docs = self.pymupdf.load(file_path); fitz.open is outside its try block, so a
\* file that does not open makes load raise
PM_PyMuPDF ==
    /\ pmPc = "pymupdf"
    /\ \E opened \in BOOLEAN :
        /\ pmDocs' = IF opened THEN PyMuPDFLoad(pdf) ELSE pmDocs
        /\ pmPc' = IF opened THEN "ocr" ELSE "raised"
    /\ pmCalls' = Append(pmCalls, "pymupdf")
    /\ UNCHANGED <<pdf, llamaClient, tesseract, pmLlama, ocrIn, ocrOut>>
    /\ UNCHANGED <<exVars, rrVars, clVars, qpVars>>

\* docs = self.ocr.ocr_pages_if_empty(file_path, docs)
PM_Ocr ==
    /\ pmPc = "ocr"
    /\ \E opened \in BOOLEAN :
        /\ ocrOut' = ocr_pages_if_empty(pdf, opened, tesseract, pmDocs)
        /\ pmDocs' = ocrOut'.docs
    /\ ocrIn' = pmDocs
    /\ pmCalls' = Append(pmCalls, "ocr")
    /\ pmPc' = "meta"
    /\ UNCHANGED <<pdf, llamaClient, tesseract, pmLlama>>
    /\ UNCHANGED <<exVars, rrVars, clVars, qpVars>>

\* the metadata defaults, and return docs
PM_Return ==
    /\ pmPc = "meta"
    /\ pmDocs' = [i \in 1..Len(pmDocs) |-> FixMetadata(pmDocs[i], llamaClient)]
    /\ pmPc' = "done"
    /\ UNCHANGED <<pdf, llamaClient, tesseract, pmCalls, pmLlama, ocrIn, ocrOut>>
    /\ UNCHANGED <<exVars, rrVars, clVars, qpVars>>

NextParse == PM_Begin \/ PM_Llama \/ PM_PyMuPDF \/ PM_Ocr \/ PM_Return

SpecParse == InitParse /\ [][NextParse]_vars

(***************************************************************************)
(* SpecOCR: ocr_pages_if_empty on up to MaxOcrDocs documents of any        *)
(* content                                                                 *)
(***************************************************************************)
Exactly25 == "Torque: 35 Nm (see p. 12)"
PaddedShort == "torque 35 Nm               "
PaddedLong == "  Tighten the rear caliper bolt to 35 Nm \n"

OcrContents == {"", "Page 3", Exactly25, PaddedShort, PaddedLong}
OcrMetas ==
    { [page |-> 2, section |-> "SECTION 204: Front Suspension", source |-> FilePath,
       file_name |-> FileName(FilePath), parser |-> "llamaparse"],
      NoMeta }
OcrInputDocs == {Document(c, m) : c \in OcrContents, m \in OcrMetas}

OcrFiles ==
    { <<ScannedPage>>, <<ScannedPage, ShortPage>>, <<UnreadablePage, ScannedPage>>,
      <<ShortPage, NormalPage, ScannedPage>> }

InitOCR ==
    /\ pdf \in OcrFiles
    /\ tesseract \in BOOLEAN
    /\ ocrIn \in SeqsUpTo(OcrInputDocs, MaxOcrDocs)
    /\ ocrOut = OcrNotRun
    /\ llamaClient = FALSE
    /\ pmPc = "idle"
    /\ pmDocs = <<>>
    /\ pmCalls = <<>>
    /\ pmLlama = "notcalled"
    /\ ExtractIdle
    /\ RerankIdle
    /\ ClassifyIdle
    /\ QueryIdle

\* ocr_pages_if_empty(file_path, ocrIn)
OcrCall ==
    /\ ~ocrOut.done
    /\ \E opened \in BOOLEAN :
        ocrOut' = ocr_pages_if_empty(pdf, opened, tesseract, ocrIn)
    /\ UNCHANGED <<pdf, llamaClient, tesseract, pmPc, pmDocs, pmCalls, pmLlama, ocrIn>>
    /\ UNCHANGED <<exVars, rrVars, clVars, qpVars>>

NextOCR == OcrCall

SpecOCR == InitOCR /\ [][NextOCR]_vars

(***************************************************************************)
(* Spec: a QueryProcessor, from construction on: index operations and      *)
(* answer_query calls, one after the other                                 *)
(***************************************************************************)
Init ==
    /\ vectorstore = NoIndex
    /\ last_context = <<>>
    /\ indexDir \in {NoIndex, PersistedIndex}
    /\ ixResult = "none"
    /\ qpPc = "idle"
    /\ qpQuery = ""
    /\ qpType = "none"
    /\ qpDocs = <<>>
    /\ qpSpecs = <<>>
    /\ qpResult = Pending
    /\ ExtractIdle
    /\ RerankIdle
    /\ ClassifyIdle
    /\ ParseIdle

\* no call of answer_query is under way
Resting == qpPc \in {"idle", "done", "raised"}

\* a variant of build_index_from_pdf that drops the held index when it fails
BuildIndex_DropsIndexOnFailure ==
    /\ Resting
    /\ \E result \in BuildResults :
        IF result.kind = "raise"
        THEN /\ ixResult' = "raised"
             /\ vectorstore' = NoIndex
             /\ UNCHANGED indexDir
        ELSE /\ ixResult' = "built"
             /\ vectorstore' = result
             /\ indexDir' = result
    /\ UNCHANGED <<last_context, qpPc, qpQuery, qpType, qpDocs, qpSpecs, qpResult>>
    /\ UNCHANGED <<exVars, rrVars, clVars, pmVars>>

\* build_index_from_pdf(file_path): parse, split, build and save; a failure of
\* ParseManager.load or of build_faiss_index propagates and leaves the index as
\* it was
BuildIndex ==
    /\ Resting
    /\ \E result \in BuildResults :
        IF result.kind = "raise"
        THEN /\ ixResult' = "raised"
             /\ UNCHANGED <<vectorstore, indexDir>>
        ELSE /\ ixResult' = "built"
             /\ vectorstore' = result
             /\ indexDir' = result
    /\ UNCHANGED <<last_context, qpPc, qpQuery, qpType, qpDocs, qpSpecs, qpResult>>
    /\ UNCHANGED <<exVars, rrVars, clVars, pmVars>>

\* load_existing_index(): FileNotFoundError when the files are missing
LoadIndex ==
    /\ Resting
    /\ IF indexDir = NoIndex
       THEN /\ ixResult' = "FileNotFoundError"
            /\ UNCHANGED vectorstore
       ELSE /\ ixResult' = "loaded"
            /\ vectorstore' = indexDir
    /\ UNCHANGED <<last_context, indexDir, qpPc, qpQuery, qpType, qpDocs, qpSpecs, qpResult>>
    /\ UNCHANGED <<exVars, rrVars, clVars, pmVars>>

\* answer_query(query), up to the check of self.vectorstore
AQ_Call ==
    /\ Resting
    /\ \E query \in Queries : qpQuery' = query
    /\ qpType' = "none"
    /\ qpDocs' = <<>>
    /\ qpSpecs' = <<>>
    /\ IF vectorstore = NoIndex
       THEN /\ qpPc' = "raised"
            /\ qpResult' = Exception("RuntimeError")
       ELSE /\ qpPc' = "classify"
            /\ qpResult' = Pending
    /\ UNCHANGED <<vectorstore, last_context, indexDir, ixResult>>
    /\ UNCHANGED <<exVars, rrVars, clVars, pmVars>>

\* 1. query_type = classify_query(query)
AQ_Classify ==
    /\ qpPc = "classify"
    /\ \E answer \in (IF NeedsModel(qpQuery) THEN ModelAnswers ELSE {NotCalled}) :
        qpType' = classify_query(qpQuery, answer)
    /\ qpPc' = "retrieve"
    /\ UNCHANGED <<vectorstore, last_context, indexDir, ixResult, qpQuery, qpDocs, qpSpecs, qpResult>>
    /\ UNCHANGED <<exVars, rrVars, clVars, pmVars>>

\* 2. initial_docs = retriever.retrieve(query, query_type, top_k=15)
AQ_Retrieve ==
    /\ qpPc = "retrieve"
    /\ \E search \in Searches(vectorstore.chunks, TopK) :
        qpDocs' = retrieve(search, qpQuery)
    /\ qpPc' = "rerank"
    /\ UNCHANGED <<vectorstore, last_context, indexDir, ixResult, qpQuery, qpType, qpSpecs, qpResult>>
    /\ UNCHANGED <<exVars, rrVars, clVars, pmVars>>

\* 3. ranked_docs = rerank_documents(...); final_docs = ranked_docs[:6]
AQ_Rerank ==
    /\ qpPc = "rerank"
    /\ LET ranked_docs == rerank_documents(qpDocs, qpQuery)
       IN qpDocs' = SubSeq(ranked_docs, 1, Min(FinalK, Len(ranked_docs)))
    /\ qpPc' = "context"
    /\ UNCHANGED <<vectorstore, last_context, indexDir, ixResult, qpQuery, qpType, qpSpecs, qpResult>>
    /\ UNCHANGED <<exVars, rrVars, clVars, pmVars>>

\* 4. the context string, and self.last_context = context
AQ_Context ==
    /\ qpPc = "context"
    /\ last_context' = BuildContext(qpDocs)
    /\ qpPc' = "extract"
    /\ UNCHANGED <<vectorstore, indexDir, ixResult, qpQuery, qpType, qpDocs, qpSpecs, qpResult>>
    /\ UNCHANGED <<exVars, rrVars, clVars, pmVars>>

\* 5. specs = extract_specs(query, context, query_type); an exception that left
\* extract_specs would leave answer_query
AQ_Extract ==
    /\ qpPc = "extract"
    /\ \E response \in PipelineResponses :
        LET specs == ExtractSpecs(response)
        IN IF specs.kind = "exception"
           THEN /\ qpPc' = "raised"
                /\ qpResult' = specs
                /\ UNCHANGED qpSpecs
           ELSE /\ qpPc' = "dedup"
                /\ qpSpecs' = specs.specs
                /\ UNCHANGED qpResult
    /\ UNCHANGED <<vectorstore, last_context, indexDir, ixResult, qpQuery, qpType, qpDocs>>
    /\ UNCHANGED <<exVars, rrVars, clVars, pmVars>>

\* 6. the dedup, and return specs
AQ_Return ==
    /\ qpPc = "dedup"
    /\ qpResult' = Return(Dedup(qpSpecs))
    /\ qpPc' = "done"
    /\ UNCHANGED <<vectorstore, last_context, indexDir, ixResult, qpQuery, qpType, qpDocs, qpSpecs>>
    /\ UNCHANGED <<exVars, rrVars, clVars, pmVars>>

Next ==
    \/ BuildIndex
    \/ LoadIndex
    \/ AQ_Call
    \/ AQ_Classify
    \/ AQ_Retrieve
    \/ AQ_Rerank
    \/ AQ_Context
    \/ AQ_Extract
    \/ AQ_Return

Spec == Init /\ [][Next]_vars

(***************************************************************************)
(* SpecAnswer: one call of answer_query on a processor that has loaded the  *)
(* index of the long manual                                                *)
(***************************************************************************)
InitAnswer ==
    /\ vectorstore = LargeIndex
    /\ last_context = <<>>
    /\ indexDir = LargeIndex
    /\ ixResult = "loaded"
    /\ qpPc = "idle"
    /\ qpQuery = ""
    /\ qpType = "none"
    /\ qpDocs = <<>>
    /\ qpSpecs = <<>>
    /\ qpResult = Pending
    /\ ExtractIdle
    /\ RerankIdle
    /\ ClassifyIdle
    /\ ParseIdle

\* the first call of answer_query
FirstCall == qpPc = "idle" /\ AQ_Call

NextAnswer ==
    \/ FirstCall
    \/ AQ_Classify
    \/ AQ_Retrieve
    \/ AQ_Rerank
    \/ AQ_Context
    \/ AQ_Extract
    \/ AQ_Return

SpecAnswer == InitAnswer /\ [][NextAnswer]_vars

(***************************************************************************)
(* Claims                                                                  *)
(***************************************************************************)
SpecItems(bodies) == [i \in 1..Len(bodies) |-> SpecItem(bodies[i])]

(* C1: a response that is narrative text around a bare JSON array of spec        *)
(* objects, with no "specs" wrapper, yields one SpecItem per element of the      *)
(* array, in order.                                                              *)
C1_BareArrayRecovered ==
    \A pre \in NarrativeFrames, post \in NarrativeFrames, bodies \in SeqsUpTo(ValidBodies, MaxItems) :
        /\ exResult # Pending
        /\ exResponse = [kind |-> "text", toks |-> pre \o BareArray(bodies) \o post]
        => exResult = Return(SpecItems(bodies))

\* some parsing attempt of extract_specs validates the response
SomeAttemptValidates(response) ==
    /\ response.kind = "text"
    /\ LET raw == StripLexemes(response.toks)
           found == ExtractJsonBlock(raw)
           block == StripLexemes(found.block)
       IN \/ ModelValidateJson(raw).ok
          \/ /\ found.found
             /\ Head(block) = LBrace
             /\ ModelValidateJson(block).ok
          \/ /\ found.found
             /\ Head(block) = LBracket
             /\ JsonLoadsArray(block).ok
             /\ \A i \in 1..Len(JsonLoadsArray(block).bodies) :
                    JsonLoadsArray(block).bodies[i] \in ValidBodies

(* C7: extract_specs never raises: whatever the model call did, it returns a     *)
(* list, and the list is empty whenever no parsing attempt validates.            *)
C7_ExtractNeverRaises ==
    exResult # Pending =>
        /\ exResult.kind = "return"
        /\ exResponse.kind \in {"raise", "none"} => exResult.specs = <<>>
        /\ ~SomeAttemptValidates(exResponse) => exResult.specs = <<>>

\* the model answered with a wrapped array whose object violates the schema
C7_Witness ==
    /\ exResponse = [kind |-> "text", toks |-> <<Prose, " ">> \o WrappedSpecs(<<BodyNoValue>>)]
    /\ exResult = Return(<<>>)

\* where in the list the document with this text stands (0: nowhere)
PositionOf(docs, text) ==
    IF \E i \in 1..Len(docs) : docs[i].page_content = text
    THEN CHOOSE i \in 1..Len(docs) : docs[i].page_content = text
    ELSE 0

(* C2: of two candidates that differ only in that one text holds "35 Nm" and    *)
(* the other holds no number with a unit, the one with "35 Nm" gets the numeric- *)
(* specification boost and stands before the other in the output, whatever the *)
(* input order.                                                                  *)
C2_NmChunkRanksFirst ==
    \A t \in PlainTexts :
        /\ rrOut.done
        /\ Len(rrDocs) = 2
        /\ {rrDocs[1].page_content, rrDocs[2].page_content} = {t, t \o NmSuffix}
        /\ rrDocs[1].metadata = rrDocs[2].metadata
        => /\ PositionOf(rrOut.docs, t \o NmSuffix) < PositionOf(rrOut.docs, t)
           /\ Boost(t \o NmSuffix, rrQuery) = Min(Boost(t, rrQuery) + SpecBoost, MaxBoost)

C5_MentionsSpec == Contains("spec", Lower(clAnswer.text))
C5_MentionsGeneral == Contains("general", Lower(clAnswer.text))

(* C5: when neither rule matches, classify_query returns GENERAL whenever the   *)
(* model call raises or its answer does not name exactly one of the two choices *)
(* (both or neither), and SPEC only for an answer that names spec alone.        *)
C5_AmbiguousIsGeneral ==
    (clResult # "pending" /\ NeedsModel(clQuery)) =>
        /\ clAnswer.kind \in {"raise", "none"} => clResult = GENERAL
        /\ (clAnswer.kind = "text" /\ C5_MentionsSpec = C5_MentionsGeneral)
                => clResult = GENERAL
        /\ clResult = SPEC
                => (clAnswer.kind = "text" /\ C5_MentionsSpec /\ ~C5_MentionsGeneral)

\* the calls load made to this collaborator
CallsTo(name) == Count(pmCalls, {name})

\* the pages whose text extraction raises
FailingPages == {i \in 1..Len(pdf) : pdf[i].textFails}

\* the page numbers of the documents load returned
PagesReturned == {pmDocs[k].metadata["page"] : k \in 1..Len(pmDocs)}

(* C4: when load has used the plain-text extractor on a file in which the text   *)
(* of exactly one page cannot be extracted, it returns a document for every      *)
(* other page, those before and those after it.                                  *)
C4_OtherPagesReturned ==
    (pmPc = "done" /\ CallsTo("pymupdf") = 1 /\ Cardinality(FailingPages) = 1)
        => PagesReturned = (1..Len(pdf)) \ FailingPages

\* load has ended: it returned, or it raised
LoadEnded == pmPc \in {"done", "raised"}

\* the structured parser is called first when configured, never otherwise, and
\* the plain-text extractor exactly when the structured parser is not
\* configured, raised or gave nothing
ParserOrder ==
    /\ llamaClient => (pmCalls[1] = "llama" /\ CallsTo("llama") = 1)
    /\ ~llamaClient => CallsTo("llama") = 0
    /\ CallsTo("pymupdf") = (IF ~llamaClient \/ pmLlama \in {"raise", "empty"} THEN 1 ELSE 0)
    /\ pmLlama = "pages" <=> (llamaClient /\ CallsTo("pymupdf") = 0)

\* what the structured parser can have produced for this file
LlamaProducts ==
    {LlamaLoad(o.results) : o \in {x \in LlamaOutcomes(pdf) : AfterLlama(x) = "ocr"}}

\* the OCR stage ran once, last, on the documents of the parser that produced them
OcrRanOnceAfterParsing ==
    /\ CallsTo("ocr") = 1
    /\ pmCalls[Len(pmCalls)] = "ocr"
    /\ ocrOut.done
    /\ IF CallsTo("pymupdf") = 1 THEN ocrIn = PyMuPDFLoad(pdf) ELSE ocrIn \in LlamaProducts

(* C8 as stated: load calls the structured parser first when configured and the  *)
(* plain-text extractor exactly when that one is not configured, raises or gives *)
(* nothing; a structured-parse failure does not reach the caller; and in every   *)
(* case the OCR stage runs exactly once, after parsing, on the parser's pages.   *)
C8_OcrRunsInEveryCase ==
    LoadEnded =>
        /\ ParserOrder
        /\ pmLlama = "raise" => CallsTo("pymupdf") = 1
        /\ OcrRanOnceAfterParsing

(* C8, amended: the order of the parsers is as stated, and load raises only when *)
(* the plain-text extractor could not open the file, in which case the OCR stage *)
(* never runs; whenever load returns, the OCR stage has run exactly once, after  *)
(* parsing, on the pages of whichever parser produced them.                      *)
C8_OcrRunsWhenLoadReturns ==
    /\ LoadEnded => ParserOrder
    /\ pmPc = "done" => OcrRanOnceAfterParsing
    /\ pmPc = "raised" =>
        /\ pmCalls[Len(pmCalls)] = "pymupdf"
        /\ CallsTo("ocr") = 0
        /\ ~ocrOut.done
    /\ (LoadEnded /\ pmLlama = "raise") => CallsTo("pymupdf") = 1

\* the structured parser gave nothing, the plain-text extractor took over and
\* the OCR stage ran on its pages
C8_Witness ==
    /\ pmPc = "done"
    /\ pmLlama = "empty"
    /\ pmCalls = <<"llama", "pymupdf", "ocr">>
    /\ ocrIn = PyMuPDFLoad(pdf)
    /\ Len(ocrIn) > 1

\* the attempts the log holds for the document at position idx
AttemptsAt(idx) == SelectSeq(ocrOut.log, LAMBDA e : e.idx = idx)

\* the document at position idx came back as it went in and OCR was not tried
LeftAlone(idx) ==
    /\ ocrOut.docs[idx] = ocrIn[idx]
    /\ AttemptsAt(idx) = <<>>

(* C9 as stated: every document whose text has at least 25 characters, padding   *)
(* counted, comes back unchanged and no OCR is attempted for it.                 *)
C9_LongTextLeftAlone ==
    ocrOut.done =>
        \A idx \in 1..Len(ocrIn) :
            Len(ocrIn[idx].page_content) >= MIN_TEXT_CHARS => LeftAlone(idx)

(* C9, amended: every document whose text, leading and trailing whitespace       *)
(* stripped, has at least 25 characters comes back unchanged and no OCR is       *)
(* attempted for it.                                                             *)
C9_LongStrippedTextLeftAlone ==
    ocrOut.done =>
        /\ Len(ocrOut.docs) = Len(ocrIn)
        /\ \A idx \in 1..Len(ocrIn) :
            Len(Strip(ocrIn[idx].page_content)) >= MIN_TEXT_CHARS => LeftAlone(idx)

\* a padded page of enough text came back unchanged next to one that went
\* through recognition
C9_Witness ==
    /\ ocrOut.done
    /\ Len(ocrIn) = 2
    /\ ocrIn[1].page_content = PaddedLong
    /\ ocrOut.docs[1] = ocrIn[1]
    /\ ocrIn[2].page_content = ""
    /\ Len(ocrOut.log) = 1
    /\ ocrOut.log[1].idx = 2

\* recognition gave text for the document at position idx
RecognizedAt(idx) ==
    /\ AttemptsAt(idx) # <<>>
    /\ AttemptsAt(idx)[1].kind = "text"

RecognizedText(idx) == CleanText(AttemptsAt(idx)[1].text)

(* C10: for every document whose text is shorter than 25 characters, recognized  *)
(* text of at least 5 characters after cleanup becomes the content, with parser  *)
(* "ocr" and ocr true and the page number and section of the original; with      *)
(* fewer than 5 characters the original comes back unchanged.                    *)
C10_ShortPageReplaced ==
    ocrOut.done =>
        \A idx \in 1..Len(ocrIn) :
            (Len(ocrIn[idx].page_content) < MIN_TEXT_CHARS /\ RecognizedAt(idx)) =>
                LET old == ocrIn[idx]
                    new == ocrOut.docs[idx]
                IN IF Len(RecognizedText(idx)) >= MinOcrChars
                   THEN /\ new.page_content = RecognizedText(idx)
                        /\ new.metadata["parser"] = "ocr"
                        /\ new.metadata["ocr"] = TRUE
                        /\ "page" \in DOMAIN old.metadata
                                => new.metadata["page"] = old.metadata["page"]
                        /\ "section" \in DOMAIN old.metadata
                                => new.metadata["section"] = old.metadata["section"]
                   ELSE new = old

\* a short page of the structured parser was replaced by what recognition read
C10_Witness ==
    /\ ocrOut.done
    /\ Len(ocrIn) >= 1
    /\ ocrIn[1].page_content = "Page 3"
    /\ Get(ocrIn[1].metadata, "parser", "") = "llamaparse"
    /\ RecognizedAt(1)
    /\ Len(RecognizedText(1)) >= MinOcrChars
    /\ ocrOut.docs[1].page_content = RecognizedText(1)
    /\ ocrOut.docs[1].metadata["parser"] = "ocr"
    /\ ocrOut.docs[1].metadata["page"] = 2

\* the candidates answer_query holds have been through the reranker
Reranked == qpPc \in {"context", "extract", "dedup", "done"}

\* the distance the index returned for a candidate in this retrieval, as the
\* retriever recorded it
RawDistance(doc) == doc.metadata["faiss_distance"]

(* C3: in answer_query the hybrid_score of every retrieved candidate is          *)
(* 0.7 * (1 / (1 + d)) + 0.3 * boost for the raw distance d the index returned   *)
(* for it, so that of two candidates of equal boost the one at the smaller       *)
(* distance has the strictly larger hybrid_score.                                *)
C3_HybridScoreUsesDistance ==
    Reranked =>
        /\ \A i \in 1..Len(qpDocs) :
            qpDocs[i].metadata["hybrid_score"]
                = Blend(RawDistance(qpDocs[i]), Boost(qpDocs[i].page_content, qpQuery))
        /\ \A i, j \in 1..Len(qpDocs) :
            (/\ Boost(qpDocs[i].page_content, qpQuery) = Boost(qpDocs[j].page_content, qpQuery)
             /\ RawDistance(qpDocs[i]) < RawDistance(qpDocs[j]))
                => qpDocs[i].metadata["hybrid_score"] > qpDocs[j].metadata["hybrid_score"]

(* C6: answer_query called with an empty query while an index is loaded raises   *)
(* to its caller; it does not run the pipeline and return a list.                *)
C6_EmptyQueryRaises ==
    (vectorstore # NoIndex /\ qpQuery = "" /\ qpPc # "idle") => qpPc = "raised"

\* rendering or recognition was tried for the document at position idx and was
\* unavailable or raised
FailedAt(idx) ==
    /\ AttemptsAt(idx) # <<>>
    /\ AttemptsAt(idx)[1].kind \in {"notfound", "raise"}

\* the document at position idx of the output is the input document or the
\* recognized page that replaces it at the same position
SamePlace(idx) ==
    \/ ocrOut.docs[idx] = ocrIn[idx]
    \/ /\ RecognizedAt(idx)
       /\ ocrOut.docs[idx] = OcrDocument(ocrIn[idx], idx, RecognizedText(idx))

(* C11: a document for which rendering or recognition is unavailable or raises   *)
(* comes back unchanged while the others of the batch are processed as if it     *)
(* had not failed; when the file does not open (nothing is attempted) the input  *)
(* list comes back unchanged; the output always has the length and the order of  *)
(* the input.                                                                    *)
C11_FailedPageLeftOthersProcessed ==
    ocrOut.done =>
        /\ Len(ocrOut.docs) = Len(ocrIn)
        /\ \A idx \in 1..Len(ocrIn) :
            /\ SamePlace(idx)
            /\ FailedAt(idx) => ocrOut.docs[idx] = ocrIn[idx]
            /\ (RecognizedAt(idx) /\ Len(RecognizedText(idx)) >= MinOcrChars)
                    => ocrOut.docs[idx] = OcrDocument(ocrIn[idx], idx, RecognizedText(idx))
        /\ ocrOut.log = <<>> => ocrOut.docs = ocrIn

\* recognition failed on the first page, whose short text came back, and replaced
\* the second
C11_Witness ==
    /\ ocrOut.done
    /\ Len(ocrIn) = 2
    /\ ocrIn[1].page_content = "Page 3"
    /\ FailedAt(1)
    /\ ocrOut.docs[1] = ocrIn[1]
    /\ RecognizedAt(2)
    /\ ocrOut.docs[2].metadata["parser"] = "ocr"

\* classify_query made its model call
ModelCalled == clAnswer # NotCalled

\* the query holds a specification keyword, letter case ignored
HasSpecKeyword(query) ==
    \E n \in 1..Len(SPEC_KEYWORDS) : Contains(Lower(SPEC_KEYWORDS[n]), Lower(query))

(* C12: classify_query calls the model only when the query holds no              *)
(* specification keyword and no number followed by a unit; when either rule      *)
(* matches the result is SPEC and no model call is made.                         *)
C12_ModelOnlyWhenNoRuleMatches ==
    clResult # "pending" =>
        /\ ModelCalled <=> (~HasSpecKeyword(clQuery) /\ ~SpecPatternSearch(clQuery))
        /\ (HasSpecKeyword(clQuery) \/ SpecPatternSearch(clQuery))
                => (clResult = SPEC /\ ~ModelCalled)

\* the keyword rule decided the example query without a model call
C12_Witness ==
    /\ clQuery = "What is the torque for the rear caliper bolt?"
    /\ clResult = SPEC
    /\ ~ModelCalled

\* the hybrid_score a document of the output carries
HybridScore(doc) == doc.metadata["hybrid_score"]

\* out is the candidate cand as the call leaves it: the same text, the same
\* metadata, and its hybrid_score set
SameCandidate(out, cand) ==
    /\ out.page_content = cand.page_content
    /\ DOMAIN out.metadata = DOMAIN cand.metadata \cup {"hybrid_score"}
    /\ \A key \in DOMAIN cand.metadata : out.metadata[key] = cand.metadata[key]

\* f orders the inputs into the output: a permutation under which scores do not
\* increase and equal scores keep their input order
StableOrder(f) ==
    /\ \A k \in 1..Len(rrDocs) : SameCandidate(rrOut.docs[k], rrDocs[f[k]])
    /\ \A k \in 1..(Len(rrDocs) - 1) :
        \/ HybridScore(rrOut.docs[k]) > HybridScore(rrOut.docs[k + 1])
        \/ /\ HybridScore(rrOut.docs[k]) = HybridScore(rrOut.docs[k + 1])
           /\ f[k] < f[k + 1]

(* C13: rerank_documents returns exactly the input candidates, none dropped and  *)
(* none duplicated, by non-increasing hybrid_score, candidates of equal          *)
(* hybrid_score in their input order; a second call on the same inputs gives the *)
(* same order.                                                                   *)
C13_RerankIsStablePermutation ==
    rrOut.done =>
        /\ Len(rrOut.docs) = Len(rrDocs)
        /\ \E f \in Orders(Len(rrDocs)) : StableOrder(f)
        /\ rerank_documents(rrDocs, rrQuery) = rrOut.docs

\* two candidates of equal hybrid_score and different texts came back in their
\* input order
C13_Witness ==
    /\ rrOut.done
    /\ Len(rrDocs) = 2
    /\ rrDocs[1].page_content # rrDocs[2].page_content
    /\ HybridScore(rrOut.docs[1]) = HybridScore(rrOut.docs[2])
    /\ rrOut.docs[1].page_content = rrDocs[1].page_content
    /\ rrOut.docs[2].page_content = rrDocs[2].page_content

\* answer_query returned a list
Returned == qpPc = "done" /\ qpResult.kind = "return"

\* the position of the last item of the extraction output that has the key of s
LastOfKey(s) ==
    CHOOSE i \in 1..Len(qpSpecs) :
        /\ DedupKey(qpSpecs[i]) = DedupKey(s)
        /\ \A j \in (i + 1)..Len(qpSpecs) : DedupKey(qpSpecs[j]) # DedupKey(s)

(* C14: the list answer_query returns has no two items whose (component, value,  *)
(* unit) are equal ignoring letter case, and for each key of the extraction      *)
(* output the returned item is the last item of the output that has that key.    *)
C14_DedupKeepsLastOfEachKey ==
    Returned =>
        LET out == qpResult.specs
        IN /\ \A i, j \in 1..Len(out) : DedupKey(out[i]) = DedupKey(out[j]) => i = j
           /\ \A i \in 1..Len(qpSpecs) :
                \E k \in 1..Len(out) : out[k] = qpSpecs[LastOfKey(qpSpecs[i])]
           /\ \A k \in 1..Len(out) :
                \E i \in 1..Len(qpSpecs) : out[k] = qpSpecs[LastOfKey(qpSpecs[i])]

\* the extraction gave two items that differ only by letter case; the later one
\* alone was returned
C14_Witness ==
    /\ Returned
    /\ qpSpecs = <<SpecItem(BodyBolt), SpecItem(BodyBoltLower)>>
    /\ SpecItem(BodyBolt) # SpecItem(BodyBoltLower)
    /\ qpResult.specs = <<SpecItem(BodyBoltLower)>>

\* this step ends a call of answer_query made on a non-empty query with an index held
EndsCallWithIndex ==
    /\ vectorstore # NoIndex
    /\ qpQuery' # ""
    /\ qpPc' \in {"done", "raised"}
    /\ <<qpPc, qpResult>>' # <<qpPc, qpResult>>

(* C15: once an index is held, answer_query on a non-empty query ends by          *)
(* returning a list and never by raising, whether the classification model call, *)
(* the vector search or the extraction model response fails.                     *)
C15_AnswerQueryReturnsList ==
    [][EndsCallWithIndex => (qpPc' = "done" /\ qpResult'.kind = "return")]_vars

\* on an index that holds chunks the search raised, the extraction gave nothing,
\* the query was one the classification model decides, and [] was returned
C15_Witness ==
    /\ Returned
    /\ qpQuery = "what is this manual about"
    /\ NeedsModel(qpQuery)
    /\ vectorstore.chunks # <<>>
    /\ qpDocs = <<>>
    /\ qpSpecs = <<>>
    /\ qpResult = Return(<<>>)

\* what a call of answer_query writes
callVars == <<qpPc, qpQuery, qpType, qpDocs, qpSpecs, qpResult>>

\* a step that is a call of answer_query reaching its check of self.vectorstore
CallStep == Resting /\ callVars' # callVars

\* a step that is a whole call of build_index_from_pdf or load_existing_index
IndexStep == Resting /\ callVars' = callVars

\* the call of this step failed on the missing index
FailsNotInitialized == qpPc' = "raised" /\ qpResult' = Exception("RuntimeError")

\* the index operation of this step completed
IndexStepSucceeds == ixResult' \in {"built", "loaded"}

\* the processor holds an index only from a build or load that completed, and
\* holds one from then on
HeldIndexFromSuccess ==
    /\ vectorstore' # vectorstore => IndexStep /\ IndexStepSucceeds /\ vectorstore' # NoIndex
    /\ IndexStep /\ IndexStepSucceeds => vectorstore' # NoIndex

\* a build or load that fails leaves the held index in place
FailedIndexStepKeepsIndex ==
    IndexStep /\ ~IndexStepSucceeds =>
        /\ ixResult' \in {"raised", "FileNotFoundError"}
        /\ vectorstore' = vectorstore

\* answer_query fails exactly when no index is held, and then at once: no
\* classification, search or model step is taken and last_context stays
FailsExactlyWithoutIndex ==
    CallStep =>
        /\ FailsNotInitialized <=> vectorstore = NoIndex
        /\ vectorstore # NoIndex => qpPc' = "classify"
        /\ FailsNotInitialized =>
            /\ UNCHANGED <<last_context, vectorstore, indexDir, ixResult>>
            /\ UNCHANGED <<exVars, rrVars, clVars, pmVars>>
            /\ qpType' = "none" /\ qpDocs' = <<>> /\ qpSpecs' = <<>>

(* C16: a new processor holds no index; it comes to hold one only by a build or  *)
(* load that completes and holds one ever after, a build or load that fails      *)
(* leaving the held index in place; answer_query fails with the not-initialized  *)
(* error exactly when no index is held, so exactly when no earlier build or load *)
(* completed, and the failing call makes no classifier, index or model call and  *)
(* leaves last_context unchanged.                                                *)
C16_NotInitializedIffNoIndexYet ==
    /\ vectorstore = NoIndex
    /\ [][HeldIndexFromSuccess /\ FailedIndexStepKeepsIndex /\ FailsExactlyWithoutIndex]_vars

\* load_existing_index failed on the missing files, no build completed, and
\* answer_query failed on the missing index
C16_Witness ==
    /\ ixResult = "FileNotFoundError"
    /\ vectorstore = NoIndex
    /\ qpPc = "raised"
    /\ qpResult = Exception("RuntimeError")
    /\ qpQuery = "rear caliper bolt torque"
    /\ last_context = <<>>

\* every way build_index_from_pdf may run on the two-page file of one normal and
\* one scanned page, with the page documents ParseManager.load gave and the index
ManualBuilds ==
    { [opened |-> opened, installed |-> installed,
       pages |-> ParseManagerLoad(ManualFile, client, outcome, opened, installed).docs,
       index |-> build_index_from_pdf(ManualFile, client, outcome, opened, installed, TRUE)] :
        client \in BOOLEAN, outcome \in LlamaOutcomes(ManualFile),
        opened \in BOOLEAN, installed \in BOOLEAN }

\* the processor holds the index the build b made
HoldsBuild(b) == ixResult = "built" /\ b.index.kind = "index" /\ vectorstore = b.index

\* recognition ran on the second page and read it: the file opened for rendering,
\* tesseract is installed, and the parser gave a document for each page
SecondPageRecognized(b) == b.opened /\ b.installed /\ Len(b.pages) = 2

ChunksOfPage(chunks, page) ==
    {i \in 1..Len(chunks) : Get(chunks[i].metadata, "page", "?") = page}

ChunksFromBothPages(chunks) ==
    ChunksOfPage(chunks, 1) # {} /\ ChunksOfPage(chunks, 2) # {}

SecondPageChunksTagged(chunks) ==
    \A i \in ChunksOfPage(chunks, 2) :
        /\ Get(chunks[i].metadata, "ocr", FALSE) = TRUE
        /\ Get(chunks[i].metadata, "parser", "") = "ocr"

Holds(frame, lexeme) == \E i \in 1..Len(frame) : frame[i] = lexeme

\* every response that is a valid wrapped object with text added around it: its
\* lexemes, the items the object lists, and whether a brace of the added text
\* lies before the object (an opening one) or after it (a closing one)
WrappedResponses ==
    { [toks |-> pre \o WrappedSpecs(bodies) \o post,
       specs |-> SpecItems(bodies),
       braceOutside |-> Holds(pre, LBrace) \/ Holds(post, RBrace)] :
        pre \in PlainFrames \cup BraceFrames, post \in PlainFrames \cup BraceFrames,
        bodies \in SeqsUpTo(ValidBodies, MaxItems) }

\* extract_specs has run on the response w
ExtractedFrom(w) == exResponse = [kind |-> "text", toks |-> w.toks]

(* C18 as stated: a valid {"specs": [...]} object with any added prose before    *)
(* it, code fences around it or commentary after it yields exactly the SpecItems *)
(* it lists, in order.                                                           *)
C18_WrappedRecoveredFromAnyText ==
    exResult # Pending =>
        \A w \in WrappedResponses : ExtractedFrom(w) => exResult = Return(w.specs)

(* C18, amended: it does so when the text before the object holds no opening     *)
(* brace and the text after it no closing brace; the greedy search runs from the *)
(* first opening brace of the response to its last closing brace.                *)
C18_WrappedRecoveredFromBracelessText ==
    exResult # Pending =>
        \A w \in WrappedResponses :
            ExtractedFrom(w) /\ ~w.braceOutside => exResult = Return(w.specs)

\* a fenced object of two items after prose, with commentary after it, gave its
\* two items
C18_Witness ==
    /\ exResult # Pending
    /\ exResponse.kind = "text"
    /\ exResponse.toks = <<Prose, RBrace, " ">> \o WrappedSpecs(<<BodyX, BodyBolt>>) \o <<"\n", Fence>>
    /\ ~ModelValidateJson(StripLexemes(exResponse.toks)).ok
    /\ exResult = Return(<<SpecItem(BodyX), SpecItem(BodyBolt)>>)

\* the page number the document at list position idx carries: metadata["page"],
\* or its position when it has none
PageNumberOf(idx) == Get(ocrIn[idx].metadata, "page", idx)

(* C19: for every document shorter than 25 characters that goes through          *)
(* rendering and recognition, the page rendered and recognized is the page of    *)
(* the file that the document's page number names, also when page numbers and    *)
(* list positions differ.                                                        *)
C19_RendersPageOfDocument ==
    ocrOut.done =>
        \A idx \in 1..Len(ocrIn) :
            (NeedsOcr(ocrIn[idx]) /\ AttemptsAt(idx) # <<>>) =>
                AttemptsAt(idx)[1] = Recognize(pdf, tesseract, PageNumberOf(idx))

\* the hybrid scores rerank_documents gives the candidates, by position
ScoresOf(docs, query) == [i \in 1..Len(docs) |-> score_document(docs[i], query)]

\* the rank of candidate i in the reranked order: after every candidate of a
\* higher score and every earlier candidate of the same score
RankOf(scores, i) ==
    1 + Cardinality({j \in 1..Len(scores) :
                        scores[j] > scores[i] \/ (scores[j] = scores[i] /\ j < i)})

\* final is the first FinalK of the reranked order of the candidates docs
FirstOfRerankedOrder(final, docs, query) ==
    LET scores == ScoresOf(docs, query)
    IN /\ Len(final) = Min(FinalK, Len(docs))
       /\ \A i \in 1..Len(docs) :
            RankOf(scores, i) <= FinalK =>
                final[RankOf(scores, i)] = SetMeta(docs[i], "hybrid_score", scores[i])

\* the context holds one block for each of the chunks docs, in their order, each
\* under the header of its own page, section and score
ContextOf(context, docs) ==
    /\ Len(context) = Len(docs)
    /\ \A k \in 1..Len(docs) :
        context[k] = [chunk |-> k,
                      page |-> docs[k].metadata["page"],
                      section |-> docs[k].metadata["section"],
                      score |-> docs[k].metadata["hybrid_score"],
                      text |-> Strip(docs[k].page_content)]

\* the steps of answer_query, by where the call stands before and after
RetrieveStep == qpPc = "retrieve" /\ qpPc' = "rerank"
RerankStep == qpPc = "rerank" /\ qpPc' = "context"
ContextStep == qpPc = "context" /\ qpPc' # qpPc
ExtractStep == qpPc = "extract" /\ qpPc' # qpPc

(* C20: answer_query retrieves at most 15 candidates, keeps the first 6 of their *)
(* reranked order, and builds the context of exactly these, each once under its  *)
(* own page, section and score header in rank order; last_context holds that     *)
(* context before extraction is called and keeps it whatever extraction returns; *)
(* with no candidate the context is empty and extraction is still called.        *)
C20_ContextFromTopSixBeforeExtraction ==
    [][ /\ RetrieveStep => Len(qpDocs') <= TopK
        /\ RerankStep => FirstOfRerankedOrder(qpDocs', qpDocs, qpQuery)
        /\ ContextStep =>
            /\ qpPc' = "extract"
            /\ qpDocs' = qpDocs
            /\ Len(last_context') <= FinalK
            /\ ContextOf(last_context', qpDocs)
            /\ qpDocs = <<>> => last_context' = <<>>
        /\ ExtractStep => qpPc' = "dedup" /\ last_context' = last_context
        /\ qpPc = "dedup" => last_context' = last_context ]_vars

\* fifteen candidates were retrieved from the index of seventeen chunks, six
\* went into the context, and the context was there when extraction gave nothing
C20_Witness ==
    /\ Len(vectorstore.chunks) > TopK
    /\ qpPc = "done"
    /\ Len(qpDocs) = FinalK
    /\ Len(last_context) = FinalK
    /\ last_context[FinalK].chunk = FinalK
    /\ \E k \in 1..(FinalK - 1) : last_context[k].page > last_context[k + 1].page
    /\ qpSpecs = <<>>
    /\ qpResult = Return(<<>>)

====
